---------------------------- MODULE Spec2Model ----------------------------
(***************************************************************************)
(* Model of il2-utils: the `mem` module (the page-lock primitives, the     *)
(* SecretBytes container and the ProtectedValue strategies), the `cache`   *)
(* module (SimpleCacheEngine and SimpleCache), the `fs::shared` module     *)
(* (SharedFile and its guards) and the `vec` module (VecExtensions).       *)
(*                                                                         *)
(* Memory is explicit: every SecretBytes owns one allocation (an address   *)
(* in `mem`), so that copying, wiping and aliasing are things the model    *)
(* can get wrong.  The operating system's answers (page lock, page unlock, *)
(* in-place encryption) are inputs of the actions.                         *)
(***************************************************************************)
EXTENDS Integers, Sequences, FiniteSets, TLC

\* Bounds of the model.
MaxObjs == 2      \* SecretBytes objects of the container specification
MaxBytes == 2     \* bytes the objects of the container specification hold together
MaxSize == 4      \* largest element count of a direct lock_mem/unlock_mem call
MaxPlain == 2     \* longest plaintext given to create_protected_value
MaxOut == 2       \* buffers returned by get_secret and not yet dropped
MaxSteps == 3     \* calls of next() on one ByteMaskGenerator
MaxData == 33     \* distance of a size given to protected_size from 0 or from usize::MAX
MaxKeys == 3      \* keys used with the cache
MaxCache == 2     \* largest max_size of a cache
MaxCalls == 4     \* insert and get calls on one cache
MaxInst == 2      \* SharedFile instances open at a time
MaxCap == 3       \* largest capacity of the vector
MaxSlice == 2     \* longest slice given to a method of the vector

VARIABLES
    heap,      \* slot -> SecretBytes object {st, buf, locked, len}
    mem,       \* address -> bytes of the allocation (Vec<u8> contents)
    oslock,    \* address -> TRUE while the OS holds the pages locked
    last,      \* the operation that produced the current state
    build,     \* target_os and overflow checks the crate is compiled with
    pv,        \* the ProtectedValue behind the Arc (strategy, secret, seed)
    made,      \* the plaintext given and the handle as its constructor left it
    panicked,  \* TRUE once an operation has panicked
    gen,       \* the ByteMaskGenerator objects of the generator specification
    calc,      \* the last call of a function of the function specification
    thr,       \* the threads sharing one handle: their Arc and their get_secret()
    cache,     \* the SimpleCacheEngine behind the cache's RwLock
    rw,        \* the cache's RwLock and the calls threads have in progress on the cache
    fs,        \* the SharedFile instances and the locks the OS holds on lock files
    vec        \* a Vec<u8>, the last VecExtensions call on it and what the call released

vars == <<heap, mem, oslock, last, build, pv, made, panicked, gen, calc, thr, cache, rw, fs, vec>>

max(a, b) == IF a >= b THEN a ELSE b

\* Objects of the container specification.
Slots == 1..MaxObjs
\* Objects of the protected-value specification: the handle's secret in
\* slot 1, the buffers get_secret returns in the slots after it.
PvSlot == 1
OutSlots == 2..(MaxOut + 1)
AllSlots == 1..max(MaxObjs, MaxOut + 1)
\* Address 0 is a caller's own vector, used by direct lock_mem/unlock_mem calls.
Addrs == {0} \cup AllSlots

\* Byte values written by callers (0 is what `new` fills the buffer with).
WriteBytes == {167}

min(a, b) == IF a <= b THEN a ELSE b

Zeros(n) == [i \in 1..n |-> 0]

RECURSIVE SeqsUpTo(_, _)
SeqsUpTo(S, n) ==
    IF n = 0 THEN {<<>>}
    ELSE LET shorter == SeqsUpTo(S, n - 1)
         IN  shorter \cup {Append(q, b) : q \in {x \in shorter : Len(x) = n - 1}, b \in S}

FreeObj == [st |-> "free", buf |-> 0, locked |-> FALSE, len |-> 0]

\* `last`: the operation and its arguments (slot, src, n, want, bytes; elem
\* and the platform's answer os for a direct lock_mem/unlock_mem call), the
\* value the last primitive returned and the platform calls the operation
\* made.  For a drop, n is the length of the buffer, bytes the buffer as it
\* was released, want the locked flag drop left, and hidden says whether a
\* byte beyond len() was non-zero before the drop.
\* For a call on the cache: key and val are its arguments, n the number of
\* entries before it (for len, the number returned), ret whether the key was
\* present before it and prev the value the key then had; for a get, val is
\* the value returned.
NoOp == [op |-> "init", slot |-> 0, src |-> 0, n |-> 0, want |-> FALSE, bytes |-> <<>>,
         elem |-> 1, os |-> FALSE, hidden |-> FALSE, ret |-> FALSE, calls |-> <<>>,
         key |-> 0, val |-> 0, prev |-> 0]

\* Some byte of the buffer beyond the logical length is not zero.
Hidden(s) == \E i \in (heap[s].len + 1)..Len(mem[heap[s].buf]) : mem[heap[s].buf][i] # 0

\* The world an operation works on: the three state components plus the
\* return value of the last primitive and the platform calls made so far.
World == [heap |-> heap, mem |-> mem, oslock |-> oslock, ret |-> FALSE, calls |-> <<>>,
          panicked |-> FALSE]

-----------------------------------------------------------------------------
(* Platform lock primitive *)

\* VirtualLock / mlock: `os` is the platform's answer.
lock_mem_core(w, a, size, os) ==
    [w EXCEPT !.ret = os,
              !.oslock[a] = IF os THEN TRUE ELSE @,
              !.calls = Append(@, [call |-> "lock", size |-> size, ok |-> os,
                                   wiped |-> \A i \in 1..Len(w.mem[a]) : w.mem[a][i] = 0])]

\* VirtualUnlock / munlock.
unlock_mem_core(w, a, size, os) ==
    [w EXCEPT !.ret = os,
              !.oslock[a] = IF os THEN FALSE ELSE @,
              !.calls = Append(@, [call |-> "unlock", size |-> size, ok |-> os,
                                   wiped |-> \A i \in 1..Len(w.mem[a]) : w.mem[a][i] = 0])]

\* lock_mem without the test of size.
lock_mem_unguarded(w, a, size, elem, os) == lock_mem_core(w, a, size * elem, os)

\* `elem` is size_of::<T>().
lock_mem(w, a, size, elem, os) ==
    IF size > 0 THEN lock_mem_core(w, a, size * elem, os)
    ELSE [w EXCEPT !.ret = FALSE]

unlock_mem(w, a, size, elem, os) ==
    IF size > 0 THEN unlock_mem_core(w, a, size * elem, os)
    ELSE [w EXCEPT !.ret = FALSE]

-----------------------------------------------------------------------------
(* SecretBytes *)

buffer(w, s) == w.mem[w.heap[s].buf]

buffer_len(w, s) == Len(buffer(w, s))

len(w, s) == w.heap[s].len

locked(w, s) == w.heap[s].locked

is_empty(w, s) == w.heap[s].len = 0

\* &self.value[..self.len]: indexing past the buffer is a panic in the code
\* and an evaluation error here.
value(w, s) == SubSeq(buffer(w, s), 1, len(w, s))

\* lock() taking the call's success for granted.
lock_assuming_success(w, s, os) ==
    IF ~is_empty(w, s) /\ ~w.heap[s].locked
    THEN LET w1 == lock_mem(w, w.heap[s].buf, buffer_len(w, s), 1, os)
         IN  [w1 EXCEPT !.heap[s].locked = TRUE]
    ELSE w

\* lock() treating a refused lock as fatal.
lock_or_panic(w, s, os) ==
    IF ~is_empty(w, s) /\ ~w.heap[s].locked
    THEN LET w1 == lock_mem(w, w.heap[s].buf, buffer_len(w, s), 1, os)
         IN  [w1 EXCEPT !.heap[s].locked = w1.ret, !.panicked = ~w1.ret]
    ELSE w

lock(w, s, os) ==
    IF ~is_empty(w, s) /\ ~w.heap[s].locked
    THEN LET w1 == lock_mem(w, w.heap[s].buf, buffer_len(w, s), 1, os)
         IN  [w1 EXCEPT !.heap[s].locked = w1.ret]
    ELSE w

unlock(w, s, os) ==
    IF w.heap[s].locked
    THEN LET w1 == unlock_mem(w, w.heap[s].buf, buffer_len(w, s), 1, os)
         IN  [w1 EXCEPT !.heap[s].locked = ~w1.ret]
    ELSE w

\* Vec::with_capacity + resize(size, 0): a fresh allocation for slot s.
new(w, s, size, want, os) ==
    LET ret == [w EXCEPT !.heap[s] = [st |-> "live", buf |-> s, locked |-> FALSE, len |-> size],
                         !.mem[s] = Zeros(size)]
    IN  IF want THEN lock(ret, s, os) ELSE ret

with_value(w, s, val, want, os) ==
    LET ret == new(w, s, Len(val), want, os)
    IN  [ret EXCEPT !.mem[ret.heap[s].buf] = val]

\* set_len without the clamp.
set_len_unclamped(w, s, size) == [w EXCEPT !.heap[s].len = size]

\* set_len shortening the vector itself.
set_len_truncating(w, s, size) ==
    [w EXCEPT !.heap[s].len = min(size, buffer_len(w, s)),
              !.mem[w.heap[s].buf] = SubSeq(@, 1, min(size, Len(@)))]

set_len(w, s, size) ==
    [w EXCEPT !.heap[s].len = min(size, buffer_len(w, s))]

\* clone copying only the logical value.
clone_value_only(w, src, dst, os) ==
    LET ret == with_value(w, dst, value(w, src), w.heap[src].locked, os)
    IN  set_len(ret, dst, len(w, src))

\* clone sharing the original's allocation.
clone_shallow(w, src, dst, os) ==
    [w EXCEPT !.heap[dst] = w.heap[src]]

clone(w, src, dst, os) ==
    LET ret == with_value(w, dst, buffer(w, src), w.heap[src].locked, os)
    IN  set_len(ret, dst, len(w, src))

zeroize(bytes) == [i \in 1..Len(bytes) |-> 0]

\* Drop wiping only the logical value.
drop_value_only(w, s, os) ==
    LET w1 == [w EXCEPT !.mem[w.heap[s].buf] =
                   [i \in 1..Len(@) |-> IF i <= w.heap[s].len THEN 0 ELSE @[i]]]
    IN  unlock(w1, s, os)

\* Drop unlocking the pages before it wipes them.
drop_unlock_first(w, s, os) ==
    LET w1 == unlock(w, s, os)
    IN  [w1 EXCEPT !.mem[w1.heap[s].buf] = zeroize(@)]

\* Drop for SecretBytes; the object is left as it is when the allocation
\* goes back to the allocator.
drop(w, s, os) ==
    LET w1 == [w EXCEPT !.mem[w.heap[s].buf] = zeroize(@)]
    IN  unlock(w1, s, os)

\* The allocator takes the Vec's allocation back, which the operation's
\* record of calls keeps as a call "free" (`wiped`: every byte of it was zero
\* then).  The pages of a released allocation are no longer tracked.
release(w, s) ==
    [w EXCEPT !.heap[s] = FreeObj, !.mem[s] = <<>>, !.oslock[s] = FALSE,
              !.calls = Append(@, [call |-> "free", size |-> Len(w.mem[s]), ok |-> TRUE,
                                   wiped |-> \A i \in 1..Len(w.mem[s]) : w.mem[s][i] = 0])]

\* mut_value()[i] = b (0-based i): a slice of the first len bytes.
write_value(w, s, i, b) == [w EXCEPT !.mem[w.heap[s].buf][i + 1] = b]

\* mut_buffer()[i] = b (0-based i): a slice of the whole buffer.
write_buffer(w, s, i, b) == [w EXCEPT !.mem[w.heap[s].buf][i + 1] = b]

-----------------------------------------------------------------------------
(* 64-bit arithmetic.  A u64 is its eight bytes, least significant first,  *)
(* so that every intermediate value fits the model checker's integers.     *)

U64(b0, b1, b2, b3, b4, b5, b6, b7) == <<b0, b1, b2, b3, b4, b5, b6, b7>>

U64Zero == U64(0, 0, 0, 0, 0, 0, 0, 0)
U64Max == U64(255, 255, 255, 255, 255, 255, 255, 255)

\* 6364136223846793005 = 0x5851F42D4C957F2D
Multiplier == U64(45, 127, 149, 76, 45, 244, 81, 88)

RECURSIVE ColumnSum(_, _, _, _)
\* sum of a[i] * b[k - i] for i in j..k (0-based byte positions)
ColumnSum(a, b, k, j) ==
    IF j > k THEN 0 ELSE a[j + 1] * b[k - j + 1] + ColumnSum(a, b, k, j + 1)

RECURSIVE MulFrom(_, _, _, _)
MulFrom(a, b, k, carry) ==
    IF k > 7 THEN <<>>
    ELSE LET col == ColumnSum(a, b, k, 0) + carry
         IN  <<col % 256>> \o MulFrom(a, b, k + 1, col \div 256)

\* u64::wrapping_mul: the low 64 bits of the product.
wrapping_mul(a, b) == MulFrom(a, b, 0, 0)

RECURSIVE IncFrom(_, _)
IncFrom(a, k) ==
    IF k > 8 THEN a
    ELSE IF a[k] = 255 THEN IncFrom([a EXCEPT ![k] = 0], k + 1)
    ELSE [a EXCEPT ![k] = a[k] + 1]

\* `x + 1` on a u64: with overflow checks (debug profile) u64::MAX + 1
\* panics; without them (release profile) it wraps to 0.
add_one(x, checks) ==
    IF x = U64Max /\ checks THEN [val |-> x, overflow |-> TRUE]
    ELSE [val |-> IncFrom(x, 1), overflow |-> FALSE]

RECURSIVE XorBits(_, _, _)
XorBits(a, b, bits) ==
    IF bits = 0 THEN 0
    ELSE ((a + b) % 2) + 2 * XorBits(a \div 2, b \div 2, bits - 1)

\* u8 ^ u8
xor(a, b) == XorBits(a, b, 8)

RECURSIVE LtFrom(_, _, _)
LtFrom(a, b, k) ==
    IF k = 0 THEN FALSE
    ELSE IF a[k] # b[k] THEN a[k] < b[k]
    ELSE LtFrom(a, b, k - 1)

\* a < b on u64
lt_u64(a, b) == LtFrom(a, b, 8)

\* A usize (64 bits on the targets modelled) is held like a u64.
RECURSIVE Limbs(_, _)
Limbs(n, k) == IF k = 0 THEN <<>> ELSE <<n % 256>> \o Limbs(n \div 256, k - 1)

\* The usize of a small number, and the number of a usize below 2^24.
usize(n) == Limbs(n, 8)
as_int(x) == x[1] + 256 * x[2] + 65536 * x[3]
\* Below 2^24.
IsSmall(x) == \A i \in 4..8 : x[i] = 0

RECURSIVE AddFrom(_, _, _)
AddFrom(a, k, carry) ==
    IF k > 8 THEN [val |-> a, carry |-> carry]
    ELSE LET t == a[k] + carry
         IN  AddFrom([a EXCEPT ![k] = t % 256], k + 1, t \div 256)

\* `x + d` on a usize, d <= 255: a sum beyond usize::MAX panics with
\* overflow checks and wraps without them.
add_usize(x, d, checks) ==
    LET sum == AddFrom(x, 1, d)
    IN  IF sum.carry > 0 /\ checks THEN [val |-> x, overflow |-> TRUE]
        ELSE [val |-> sum.val, overflow |-> FALSE]

RECURSIVE SubFrom(_, _, _)
SubFrom(a, k, borrow) ==
    IF k > 8 THEN a
    ELSE LET t == a[k] - borrow
         IN  IF t >= 0 THEN SubFrom([a EXCEPT ![k] = t], k + 1, 0)
             ELSE SubFrom([a EXCEPT ![k] = t + 256], k + 1, 1)

\* `x - d` on a usize, for d <= 255 and d <= x.
sub_usize(x, d) == SubFrom(x, 1, d)

\* `x as u32`: the low 32 bits.
as_u32(x) == [i \in 1..8 |-> IF i <= 4 THEN x[i] ELSE 0]

-----------------------------------------------------------------------------
(* ByteMaskGenerator *)

ByteMaskGenerator_new(seed) == seed

\* next() emitting the low byte of the state.
next_low_byte(state, checks) ==
    LET sum == add_one(wrapping_mul(state, Multiplier), checks)
    IN  [state |-> sum.val, byte |-> sum.val[1], overflow |-> sum.overflow]

\* One call of next(): the new state, the byte emitted, and whether the
\* addition overflowed (the call then panics and emits nothing).
next(state, checks) ==
    LET sum == add_one(wrapping_mul(state, Multiplier), checks)
    IN  [state |-> sum.val, byte |-> sum.val[5], overflow |-> sum.overflow]

-----------------------------------------------------------------------------
(* The container specification: callers creating, using and destroying     *)
(* SecretBytes objects, and calling the lock primitives directly.          *)

Commit(w, l) ==
    /\ heap' = w.heap
    /\ mem' = w.mem
    /\ oslock' = w.oslock
    /\ last' = [l EXCEPT !.ret = w.ret, !.calls = w.calls]
    /\ panicked' = w.panicked
    /\ UNCHANGED <<gen, calc, cache, rw, fs, vec>>

HeapStep(w, l) == Commit(w, l) /\ UNCHANGED <<build, pv, made, thr>>

\* A new object takes the lowest free slot.
Unused(s) == heap[s].st = "free" /\ \A t \in 1..(s - 1) : heap[t].st # "free"

RECURSIVE AllocatedFrom(_)
AllocatedFrom(s) == IF s > MaxObjs THEN 0 ELSE Len(mem[s]) + AllocatedFrom(s + 1)

\* The allocation of `size` more bytes stays within the bound of the model.
Fits(size) == AllocatedFrom(1) + size <= MaxBytes
Live(s) == heap[s].st = "live"

New(s, size, want, os) ==
    /\ Unused(s)
    /\ Fits(size)
    /\ HeapStep(new(World, s, size, want, os),
              [NoOp EXCEPT !.op = "new", !.slot = s, !.n = size, !.want = want,
                           !.bytes = Zeros(size)])

WithValue(s, val, want, os) ==
    /\ Unused(s)
    /\ Fits(Len(val))
    /\ HeapStep(with_value(World, s, val, want, os),
              [NoOp EXCEPT !.op = "with_value", !.slot = s, !.n = Len(val), !.want = want,
                           !.bytes = val])

SetLen(s, size) ==
    /\ Live(s)
    /\ HeapStep(set_len(World, s, size),
              [NoOp EXCEPT !.op = "set_len", !.slot = s, !.n = size])

WriteValue(s, i, b) ==
    /\ Live(s)
    /\ i < heap[s].len
    /\ HeapStep(write_value(World, s, i, b),
              [NoOp EXCEPT !.op = "mut_value", !.slot = s])

WriteBuffer(s, i, b) ==
    /\ Live(s)
    /\ i < Len(mem[heap[s].buf])
    /\ HeapStep(write_buffer(World, s, i, b),
              [NoOp EXCEPT !.op = "mut_buffer", !.slot = s])

Clone(src, dst, os) ==
    /\ Live(src)
    /\ Unused(dst)
    /\ Fits(Len(mem[heap[src].buf]))
    /\ HeapStep(clone(World, src, dst, os),
              [NoOp EXCEPT !.op = "clone", !.slot = dst, !.src = src,
                           !.n = heap[src].len, !.want = heap[src].locked])

\* The owner goes out of scope: drop runs, then the memory is released.
Drop(s, os) ==
    /\ Live(s)
    /\ \E w \in {drop(World, s, os)} :
          HeapStep(release(w, s),
                   [NoOp EXCEPT !.op = "drop", !.slot = s, !.n = Len(mem[heap[s].buf]),
                                !.hidden = Hidden(s),
                                !.want = locked(w, s), !.bytes = buffer(w, s)])

NoHandle == [kind |-> "none", slot |-> 0, seed |-> U64Zero]
NotMade == [plain |-> <<>>, buffer |-> <<>>, len |-> 0, seed |-> U64Zero]

Platforms == {"windows", "other"}

\* No generator created yet.
NoGen == [started |-> FALSE, seed |-> U64Zero, state |-> U64Zero, out |-> <<>>,
          failed |-> FALSE]
Generators == {1, 2}

\* No function called yet.
NoCalc == [op |-> "none", seed |-> U64Zero, x |-> <<>>, once |-> <<>>, twice |-> <<>>,
           n |-> U64Zero, ret |-> U64Zero, failed |-> FALSE, size |-> U64Zero]

\* One thread per buffer that may be out at a time; a thread that holds no
\* Arc of the handle and is in no call.
Threads == 1..MaxOut
NoThread == [ref |-> FALSE, pc |-> "idle"]

\* Keys and values of the cache.
Keys == 1..MaxKeys
Values == {100, 200}

\* map.get(k) of a key that is not in the map.
None == [present |-> FALSE, value |-> 0, counter |-> U64Zero]

\* SimpleCacheEngine::new(max_size).  `map` gives every key its entry or
\* None; `touched` is history: the keys present, in the order of their last
\* insert or successful get.
SimpleCacheEngine_new(max_size) ==
    [map |-> [k \in Keys |-> None], max_size |-> max_size, counter |-> U64Zero,
     touched |-> <<>>]

NoCache == SimpleCacheEngine_new(0)

\* The threads that call the cache.
Callers == {1, 2}

\* A thread that is in no call on the cache.  In a call: the method and its
\* arguments, the place in the method (pc), the order the map's iterator
\* will take if the call removes an entry, and the counter the call drew.
NoCall == [pc |-> "idle", op |-> "none", key |-> 0, val |-> 0, order |-> <<>>,
           counter |-> U64Zero]

\* The RwLock nobody holds and no thread calling.  `guard` is the guard
\* each thread holds.  History: `seq` is the engine as the calls leave it
\* when they run one after the other in the order they took the lock,
\* `inserted` the keys given to insert since the cache was last cleared.
NoRwLock == [guard |-> [t \in Callers |-> "none"], call |-> [t \in Callers |-> NoCall],
             seq |-> NoCache, inserted |-> {}]

\* The protected files and the lock files, by path.
Files == {1, 2}
LockFiles == {1, 2}
Instances == 1..MaxInst

\* No SharedFile in this place.  An instance: the file it protects, the
\* lock file its fd_lock::RwLock holds open, and the guard borrowed from it.
NoInstance == [open |-> FALSE, file |-> 0, lock |-> 0, guard |-> "none"]

\* No SharedFile instance; `os` is the lock the OS holds on each lock file
\* for each instance's open file.
NoFs == [inst |-> [i \in Instances |-> NoInstance],
         os |-> [l \in LockFiles |-> [i \in Instances |-> "none"]]]

\* Vec<u8>: `buf` is the allocation, one element per unit of capacity, and
\* `len` the length.  Memory that was allocated and never written holds
\* Uninit.
Uninit == 0 - 1
Elems == {0} \cup WriteBytes
\* Vec::new()
EmptyVec == [buf |-> <<>>, len |-> 0]

\* No call on the vector yet.  After a call: its name and arguments, the
\* vector before it, `freed` the blocks the call handed back to the
\* allocator (to free them, or to realloc, which may move the data and free
\* the old block as it is), each as it was at that moment, and whether the
\* call panicked.
NoVec == [v |-> EmptyVec, op |-> "none", before |-> EmptyVec, n |-> U64Zero,
          other |-> <<>>, freed |-> <<>>, panicked |-> FALSE]

\* The parts of the state a specification does not use.
NoGens == gen = [g \in Generators |-> NoGen]
NoCalcs == calc = NoCalc
NoThreads == thr = [t \in Threads |-> NoThread]
NoCaches == cache = NoCache
NoCallers == rw = NoRwLock
NoFiles == fs = NoFs
NoVecs == vec = NoVec

Init ==
    /\ heap = [s \in AllSlots |-> FreeObj]
    /\ mem = [a \in Addrs |-> <<>>]
    /\ oslock = [a \in Addrs |-> FALSE]
    /\ last = NoOp
    /\ build = [platform |-> "other", overflow_checks |-> FALSE]
    /\ pv = NoHandle
    /\ made = NotMade
    /\ panicked = FALSE
    /\ NoGens /\ NoCalcs /\ NoThreads /\ NoCallers /\ NoFiles /\ NoVecs /\ NoCaches

Next ==
    \/ \E s \in Slots, size \in 0..MaxBytes, want \in BOOLEAN, os \in BOOLEAN :
          New(s, size, want, os)
    \/ \E s \in Slots, val \in SeqsUpTo(WriteBytes, MaxBytes), want \in BOOLEAN, os \in BOOLEAN :
          WithValue(s, val, want, os)
    \/ \E s \in Slots, size \in 0..(MaxBytes + 1) : SetLen(s, size)
    \/ \E s \in Slots, i \in 0..(MaxBytes - 1), b \in WriteBytes : WriteValue(s, i, b)
    \/ \E s \in Slots, i \in 0..(MaxBytes - 1), b \in WriteBytes : WriteBuffer(s, i, b)
    \/ \E src \in Slots, dst \in Slots, os \in BOOLEAN : Clone(src, dst, os)
    \/ \E s \in Slots, os \in BOOLEAN : Drop(s, os)

Spec == Init /\ [][Next]_vars

-----------------------------------------------------------------------------
(* The lock-primitive specification: a caller locking and unlocking its    *)
(* own vector of `size` elements of `elem` bytes each.                     *)

ElemSizes == {1, 2, 4, 8}

LockMem(size, elem, os) ==
    HeapStep(lock_mem(World, 0, size, elem, os),
             [NoOp EXCEPT !.op = "lock_mem", !.n = size, !.elem = elem, !.os = os])

UnlockMem(size, elem, os) ==
    HeapStep(unlock_mem(World, 0, size, elem, os),
             [NoOp EXCEPT !.op = "unlock_mem", !.n = size, !.elem = elem, !.os = os])

NextLock ==
    \/ \E size \in 0..MaxSize, elem \in ElemSizes, os \in BOOLEAN : LockMem(size, elem, os)
    \/ \E size \in 0..MaxSize, elem \in ElemSizes, os \in BOOLEAN : UnlockMem(size, elem, os)

SpecLock == Init /\ [][NextLock]_vars

-----------------------------------------------------------------------------
(* DefaultProtectedValue *)

Seed1234 == U64(210, 4, 0, 0, 0, 0, 0, 0)
\* 0x3F681078CD61D75B: its first step multiplies to u64::MAX.
SeedOverflow == U64(91, 215, 97, 205, 120, 16, 104, 63)
\* 0x100CF2DC2741DD02: its second step multiplies to u64::MAX.
SeedOverflow2 == U64(2, 221, 65, 39, 220, 242, 12, 16)

\* Values rand::random::<u64>() may return.
RandomU64 == {U64Zero, Seed1234, SeedOverflow, SeedOverflow2, U64Max}

\* `while seed == 0 { seed = random(); }`: the values the loop ends with.
DrawSeed == {r \in RandomU64 : r # U64Zero}

RECURSIVE Steps(_, _, _)
\* The first k calls of next() on a generator in state g, up to and
\* including a call that panics.
Steps(g, k, checks) ==
    IF k = 0 THEN <<>>
    ELSE LET n == next(g, checks)
         IN  IF n.overflow THEN <<n>> ELSE <<n>> \o Steps(n.state, k - 1, checks)

\* The calls of next() a generator started from each seed makes, computed
\* once for the seeds and lengths of the model.
Keystream ==
    [seed \in RandomU64, checks \in BOOLEAN |->
        Steps(ByteMaskGenerator_new(seed), MaxPlain, checks)]

RECURSIVE MaskFrom(_, _, _)
MaskFrom(ks, bytes, i) ==
    IF i > Len(bytes) THEN [bytes |-> bytes, panicked |-> FALSE]
    ELSE IF ks[i].overflow THEN [bytes |-> bytes, panicked |-> TRUE]
    ELSE MaskFrom(ks, [bytes EXCEPT ![i] = xor(@, ks[i].byte)], i + 1)

\* apply_mask(seed, value): XORs the slice in place with the keystream of
\* seed (the generator is created anew from the seed on every call); a
\* panic of next() leaves the bytes before it masked.
apply_mask(seed, bytes, checks) == MaskFrom(Keystream[seed, checks], bytes, 1)

\* new() storing the value as it was given.
mask_value_skipped(w, s, seed, checks) == w

\* apply_mask(seed, &mut secret): the slice is mut_value().
mask_value(w, s, seed, checks) ==
    LET m == apply_mask(seed, value(w, s), checks)
        rest == SubSeq(buffer(w, s), len(w, s) + 1, buffer_len(w, s))
    IN  [w EXCEPT !.mem[w.heap[s].buf] = m.bytes \o rest, !.panicked = m.panicked]

\* A panic unwinds: the local SecretBytes is dropped and released.
unwind(w, s, os) == [release(drop(w, s, os), s) EXCEPT !.panicked = TRUE]

DefaultProtectedValue_new(w, s, val, seed, checks, os1, os2) ==
    LET secret == with_value(w, s, val, TRUE, os1)
        masked == mask_value(secret, s, seed, checks)
    IN  IF masked.panicked THEN unwind(masked, s, os2) ELSE masked

\* get_secret unmasking the stored secret itself before copying it.
DefaultProtectedValue_get_secret_in_place(w, src, dst, seed, checks, os1, os2) ==
    LET unmasked == mask_value(w, src, seed, checks)
    IN  clone(unmasked, src, dst, os1)

\* Self::apply_mask(self.seed, &mut ret); ret
DefaultProtectedValue_unmask(ret, dst, seed, checks, os2) ==
    LET unmasked == mask_value(ret, dst, seed, checks)
    IN  IF unmasked.panicked THEN unwind(unmasked, dst, os2) ELSE unmasked

DefaultProtectedValue_get_secret(w, src, dst, seed, checks, os1, os2) ==
    LET ret == clone(w, src, dst, os1)
    IN  DefaultProtectedValue_unmask(ret, dst, seed, checks, os2)

-----------------------------------------------------------------------------
(* Win32ProtectedValue *)

CRYPTPROTECTMEMORY_BLOCK_SIZE == 16

\* protected_size rounding up to the next multiple, none added to a multiple.
protected_size_round_up(data_size, checks) ==
    LET block_size == CRYPTPROTECTMEMORY_BLOCK_SIZE
    IN  add_usize(data_size, (block_size - (data_size[1] % block_size)) % block_size, checks)

\* data_size is a usize; block_size divides 256, so data_size % block_size
\* is that of its lowest byte.
protected_size(data_size, checks) ==
    LET block_size == CRYPTPROTECTMEMORY_BLOCK_SIZE
    IN  add_usize(data_size, block_size - (data_size[1] % block_size), checks)

\* The per-process key of the OS primitive, one byte per position of a block.
ProcessKey(i) == (i * 37 + 92) % 256

\* Position i (1-based) moves one place up inside its block.
BlockRotate(i) ==
    LET block_size == CRYPTPROTECTMEMORY_BLOCK_SIZE
        base == ((i - 1) \div block_size) * block_size
    IN  base + ((i - base) % block_size) + 1

\* The position that moves to i.
BlockUnrotate(i) ==
    LET block_size == CRYPTPROTECTMEMORY_BLOCK_SIZE
        base == ((i - 1) \div block_size) * block_size
    IN  base + ((i - base + block_size - 2) % block_size) + 1

\* CryptProtectMemory(buf, size, SAME_PROCESS): encrypts whole blocks in
\* place; it fails when the size is no multiple of the block size or when
\* the platform refuses (`os`).
CryptProtectMemory(bytes, os) ==
    LET ok == os /\ Len(bytes) % CRYPTPROTECTMEMORY_BLOCK_SIZE = 0
    IN  [ok |-> ok,
         bytes |-> IF ok
                   THEN [i \in 1..Len(bytes) |->
                            (bytes[BlockUnrotate(i)] + ProcessKey(i)) % 256]
                   ELSE bytes]

\* CryptUnprotectMemory: the inverse, under the same conditions.
CryptUnprotectMemory(bytes, os) ==
    LET ok == os /\ Len(bytes) % CRYPTPROTECTMEMORY_BLOCK_SIZE = 0
    IN  [ok |-> ok,
         bytes |-> IF ok
                   THEN [j \in 1..Len(bytes) |->
                            (bytes[BlockRotate(j)] + 256 - ProcessKey(BlockRotate(j))) % 256]
                   ELSE bytes]

\* The call of an OS primitive on `size` bytes, as the operation's record
\* of platform calls keeps it.
Called(w, call, size, ok) ==
    [w EXCEPT !.calls = Append(@, [call |-> call, size |-> size, ok |-> ok, wiped |-> FALSE])]

\* The size handed to CryptProtectMemory / CryptUnprotectMemory for a buffer
\* of buffer_len bytes: `buffer_len() as u32`.
crypt_size(buffer_len_) == as_u32(buffer_len_)

Win32ProtectedValue_new(w, s, val, os1, crypt, os2) ==
    LET \* value.len() is the length of a slice: the sum cannot overflow.
        data_size == as_int(protected_size(usize(Len(val)), build.overflow_checks).val)
        ret == new(w, s, data_size, TRUE, os1)
        copied == [ret EXCEPT !.mem[ret.heap[s].buf] =
                       val \o SubSeq(@, Len(val) + 1, Len(@))]
        sized == set_len(copied, s, Len(val))
        \* ret.protected_data.buffer_len() as u32
        cb == as_int(crypt_size(usize(buffer_len(sized, s))))
        enc == CryptProtectMemory(SubSeq(buffer(sized, s), 1, cb), crypt)
        called == Called(sized, "encrypt", cb, enc.ok)
    IN  IF ~enc.ok THEN unwind(called, s, os2)
        ELSE [called EXCEPT !.mem[called.heap[s].buf] = enc.bytes \o SubSeq(@, cb + 1, Len(@))]

\* get_secret returning the copy whatever CryptUnprotectMemory answered.
Win32ProtectedValue_get_secret_unchecked(w, src, dst, os1, crypt, os2) ==
    LET ret == clone(w, src, dst, os1)
        cb == as_int(crypt_size(usize(buffer_len(ret, dst))))
        dec == CryptUnprotectMemory(SubSeq(buffer(ret, dst), 1, cb), crypt)
        called == Called(ret, "decrypt", cb, dec.ok)
    IN  [called EXCEPT !.mem[called.heap[dst].buf] = dec.bytes \o SubSeq(@, cb + 1, Len(@))]

\* CryptUnprotectMemory on the copy, a panic if it fails; ret
Win32ProtectedValue_decrypt(ret, dst, crypt, os2) ==
    LET \* ret.buffer_len() as u32
        cb == as_int(crypt_size(usize(buffer_len(ret, dst))))
        dec == CryptUnprotectMemory(SubSeq(buffer(ret, dst), 1, cb), crypt)
        called == Called(ret, "decrypt", cb, dec.ok)
    IN  IF ~dec.ok THEN unwind(called, dst, os2)
        ELSE [called EXCEPT !.mem[called.heap[dst].buf] = dec.bytes \o SubSeq(@, cb + 1, Len(@))]

Win32ProtectedValue_get_secret(w, src, dst, os1, crypt, os2) ==
    LET ret == clone(w, src, dst, os1)
    IN  Win32ProtectedValue_decrypt(ret, dst, crypt, os2)

-----------------------------------------------------------------------------
(* The protected-value specification: one handle is created from a         *)
(* plaintext, asked for its secret any number of times, and dropped.       *)

PlainBytes == {1, 200}
Plains == SeqsUpTo(PlainBytes, MaxPlain)

UnusedOut(r) == heap[r].st = "free" /\ \A t \in 2..(r - 1) : heap[t].st # "free"

\* create_protected_value(value): the strategy is fixed by target_os.
create_protected_value(w, s, val, seed, os1, crypt, os2) ==
    IF build.platform = "windows"
    THEN Win32ProtectedValue_new(w, s, val, os1, crypt, os2)
    ELSE DefaultProtectedValue_new(w, s, val, seed, build.overflow_checks, os1, os2)

\* ProtectedValue::get_secret through the trait object.
get_secret(w, dst, os1, crypt, os2) ==
    IF pv.kind = "win32"
    THEN Win32ProtectedValue_get_secret(w, pv.slot, dst, os1, crypt, os2)
    ELSE DefaultProtectedValue_get_secret(w, pv.slot, dst, pv.seed, build.overflow_checks,
                                          os1, os2)

Protect(val, seed, os1, crypt, os2) ==
    /\ ~panicked
    /\ pv.kind = "none"
    /\ \A s \in AllSlots : heap[s].st = "free"
    /\ \E w \in {create_protected_value(World, PvSlot, val, seed, os1, crypt, os2)} :
       LET kind == IF build.platform = "windows" THEN "win32" ELSE "default"
       IN  /\ Commit(w, [NoOp EXCEPT !.op = "create_protected_value", !.slot = PvSlot,
                                     !.n = Len(val), !.bytes = val])
           /\ pv' = IF w.panicked THEN NoHandle
                    ELSE [kind |-> kind, slot |-> PvSlot,
                          seed |-> IF kind = "default" THEN seed ELSE U64Zero]
           /\ made' = IF w.panicked THEN [NotMade EXCEPT !.plain = val]
                      ELSE [plain |-> val, buffer |-> buffer(w, PvSlot), len |-> len(w, PvSlot),
                            seed |-> IF kind = "default" THEN seed ELSE U64Zero]
    /\ UNCHANGED <<build, thr>>

GetSecret(r, os1, crypt, os2) ==
    /\ ~panicked
    /\ pv.kind # "none"
    /\ UnusedOut(r)
    /\ \E w \in {get_secret(World, r, os1, crypt, os2)} :
           Commit(w, [NoOp EXCEPT !.op = "get_secret", !.slot = r, !.src = pv.slot,
                                  !.bytes = IF w.panicked THEN <<>> ELSE value(w, r)])
    /\ UNCHANGED <<build, pv, made, thr>>

\* The caller drops a buffer get_secret returned.
DropOut(r, os) ==
    /\ ~panicked
    /\ heap[r].st = "live"
    /\ \E w \in {drop(World, r, os)} :
          Commit(release(w, r),
                 [NoOp EXCEPT !.op = "drop", !.slot = r, !.n = Len(mem[heap[r].buf]),
                              !.hidden = Hidden(r),
                              !.want = locked(w, r), !.bytes = buffer(w, r)])
    /\ UNCHANGED <<build, pv, made, thr>>

\* The last Arc is dropped: the handle's secret is dropped with it.
DropHandle(os) ==
    /\ ~panicked
    /\ pv.kind # "none"
    /\ \E w \in {drop(World, pv.slot, os)} :
          Commit(release(w, pv.slot),
                 [NoOp EXCEPT !.op = "drop_handle", !.slot = pv.slot,
                              !.n = Len(mem[heap[pv.slot].buf]),
                              !.hidden = Hidden(pv.slot),
                              !.want = locked(w, pv.slot), !.bytes = buffer(w, pv.slot)])
    /\ pv' = NoHandle
    /\ UNCHANGED <<build, made, thr>>

InitPV ==
    /\ heap = [s \in AllSlots |-> FreeObj]
    /\ mem = [a \in Addrs |-> <<>>]
    /\ oslock = [a \in Addrs |-> FALSE]
    /\ last = NoOp
    /\ build \in [platform : Platforms, overflow_checks : BOOLEAN]
    /\ pv = NoHandle
    /\ made = NotMade
    /\ panicked = FALSE
    /\ NoGens /\ NoCalcs /\ NoThreads /\ NoCallers /\ NoFiles /\ NoVecs /\ NoCaches

NextPV ==
    \/ \E val \in Plains, seed \in DrawSeed, os1 \in BOOLEAN, crypt \in BOOLEAN, os2 \in BOOLEAN :
          Protect(val, seed, os1, crypt, os2)
    \/ \E r \in OutSlots, os1 \in BOOLEAN, crypt \in BOOLEAN, os2 \in BOOLEAN :
          GetSecret(r, os1, crypt, os2)
    \/ \E r \in OutSlots, os \in BOOLEAN : DropOut(r, os)
    \/ \E os \in BOOLEAN : DropHandle(os)

SpecPV == InitPV /\ [][NextPV]_vars

-----------------------------------------------------------------------------
(* The generator specification: two ByteMaskGenerator objects, each        *)
(* created from a seed and asked for its next byte up to MaxSteps times.   *)

\* The state outside the objects of the specification at hand.
NoObjects ==
    /\ heap = [s \in AllSlots |-> FreeObj]
    /\ mem = [a \in Addrs |-> <<>>]
    /\ oslock = [a \in Addrs |-> FALSE]
    /\ last = NoOp
    /\ pv = NoHandle
    /\ made = NotMade
    /\ panicked = FALSE

GenNew(g, seed) ==
    /\ ~gen[g].started
    /\ gen' = [gen EXCEPT ![g] = [started |-> TRUE, seed |-> seed,
                                  state |-> ByteMaskGenerator_new(seed),
                                  out |-> <<>>, failed |-> FALSE]]
    /\ UNCHANGED <<heap, mem, oslock, last, build, pv, made, panicked, calc, thr, cache, rw, fs, vec>>

\* g.next(): a panic of the addition leaves self.state unassigned and
\* returns no byte.
GenNext(g) ==
    /\ gen[g].started
    /\ ~gen[g].failed
    /\ Len(gen[g].out) < MaxSteps
    /\ LET n == next(gen[g].state, build.overflow_checks)
       IN  gen' = [gen EXCEPT ![g] =
                      IF n.overflow THEN [@ EXCEPT !.failed = TRUE]
                      ELSE [@ EXCEPT !.state = n.state, !.out = Append(@, n.byte)]]
    /\ UNCHANGED <<heap, mem, oslock, last, build, pv, made, panicked, calc, thr, cache, rw, fs, vec>>

InitGen ==
    /\ NoObjects
    /\ build \in [platform : Platforms, overflow_checks : BOOLEAN]
    /\ NoGens /\ NoCalcs /\ NoThreads /\ NoCallers /\ NoFiles /\ NoVecs /\ NoCaches

NextGen ==
    \/ \E g \in Generators, seed \in RandomU64 : GenNew(g, seed)
    \/ \E g \in Generators : GenNext(g)

SpecGen == InitGen /\ [][NextGen]_vars

-----------------------------------------------------------------------------
(* The function specification: apply_mask applied to a slice and then to   *)
(* its result, and protected_size applied to a size.                       *)

\* Sizes given to protected_size: the smallest and the largest of usize.
DataSizes ==
    {usize(n) : n \in 0..MaxData} \cup {[U64Max EXCEPT ![1] = 255 - j] : j \in 0..MaxData}

\* Lengths of the values given to Win32ProtectedValue::new: the smallest,
\* and those around 2^32.
TwoTo32 == U64(0, 0, 0, 0, 1, 0, 0, 0)
ValueLens ==
    {usize(n) : n \in 0..MaxData} \cup {sub_usize(TwoTo32, j) : j \in 0..MaxData}
        \cup {add_usize(TwoTo32, j, TRUE).val : j \in 0..MaxData}

ApplyMask(seed, x) ==
    /\ \E m \in {apply_mask(seed, x, build.overflow_checks)} :
          calc' = [NoCalc EXCEPT !.op = "apply_mask", !.seed = seed, !.x = x,
                                 !.once = m.bytes, !.failed = m.panicked]
    /\ UNCHANGED <<heap, mem, oslock, last, build, pv, made, panicked, gen, thr, cache, rw, fs, vec>>

\* The second application, to the slice the first one left.
ApplyMaskAgain ==
    /\ calc.op = "apply_mask"
    /\ ~calc.failed
    /\ \E m \in {apply_mask(calc.seed, calc.once, build.overflow_checks)} :
          calc' = [calc EXCEPT !.op = "apply_mask_twice", !.twice = m.bytes,
                               !.failed = m.panicked]
    /\ UNCHANGED <<heap, mem, oslock, last, build, pv, made, panicked, gen, thr, cache, rw, fs, vec>>

ProtectedSize(data_size) ==
    /\ \E r \in {protected_size(data_size, build.overflow_checks)} :
          calc' = [NoCalc EXCEPT !.op = "protected_size", !.n = data_size,
                                 !.ret = r.val, !.failed = r.overflow]
    /\ UNCHANGED <<heap, mem, oslock, last, build, pv, made, panicked, gen, thr, cache, rw, fs, vec>>

\* The sizes Win32ProtectedValue::new works with for a value of n bytes:
\* `ret` the length of the buffer it allocates, `size` the size it hands to
\* CryptProtectMemory.
NewSizes(n) ==
    /\ \E r \in {protected_size(n, build.overflow_checks)} :
          calc' = [NoCalc EXCEPT !.op = "new_sizes", !.n = n, !.ret = r.val,
                                 !.size = crypt_size(r.val), !.failed = r.overflow]
    /\ UNCHANGED <<heap, mem, oslock, last, build, pv, made, panicked, gen, thr, cache, rw, fs, vec>>

InitCalc ==
    /\ NoObjects
    /\ build \in [platform : Platforms, overflow_checks : BOOLEAN]
    /\ NoGens /\ NoCalcs /\ NoThreads /\ NoCallers /\ NoFiles /\ NoVecs /\ NoCaches

NextCalc ==
    \/ \E seed \in RandomU64, x \in Plains : ApplyMask(seed, x)
    \/ ApplyMaskAgain
    \/ \E data_size \in DataSizes : ProtectedSize(data_size)
    \/ \E n \in ValueLens : NewSizes(n)

SpecCalc == InitCalc /\ [][NextCalc]_vars

-----------------------------------------------------------------------------
(* The shared-handle specification: one handle behind an Arc, shared by    *)
(* threads.  Each thread may hold a reference, call get_secret() on it     *)
(* (the copy and the decoding are separate steps, so calls interleave),    *)
(* drop the buffer it got and drop its reference.                          *)

\* The buffer of thread t's call lives in the slot after the handle's.
OutSlot(t) == t + 1

\* Plaintexts and seeds of this specification.
SharedPlains == {<<>>, <<1, 200>>}
SharedSeeds == {Seed1234, SeedOverflow2}

\* Arc::strong_count
strong_count == Cardinality({t \in Threads : thr[t].ref})

\* get_secret decoding the handle's own buffer before copying it.
get_secret_begin_in_place(w, dst, os1) ==
    clone(mask_value(w, pv.slot, pv.seed, FALSE), pv.slot, dst, os1)

\* `let mut ret = self.secret.clone();` (self.protected_data on Windows)
get_secret_begin(w, dst, os1) == clone(w, pv.slot, dst, os1)

\* The rest of get_secret: the decoding of the copy and its return.
get_secret_end(w, dst, crypt, os2) ==
    IF pv.kind = "win32"
    THEN Win32ProtectedValue_decrypt(w, dst, crypt, os2)
    ELSE DefaultProtectedValue_unmask(w, dst, pv.seed, build.overflow_checks, os2)

\* Dropping a reference as if it were the only one.
arc_drop_unshared(w, count, os) == drop(w, pv.slot, os)

\* Drop of an Arc<dyn ProtectedValue> when `count` references exist: the
\* last one drops the value, and with it its SecretBytes.
arc_drop(w, count, os) ==
    IF count = 1 THEN drop(w, pv.slot, os) ELSE w

\* Thread 1 creates the handle and holds the first reference.
SharedProtect(val, seed, os1, crypt, os2) ==
    /\ ~panicked
    /\ made = NotMade
    /\ \E w \in {create_protected_value(World, PvSlot, val, seed, os1, crypt, os2)} :
       LET kind == IF build.platform = "windows" THEN "win32" ELSE "default"
       IN  /\ Commit(w, [NoOp EXCEPT !.op = "create_protected_value", !.slot = PvSlot,
                                     !.n = Len(val), !.bytes = val])
           /\ pv' = IF w.panicked THEN NoHandle
                    ELSE [kind |-> kind, slot |-> PvSlot,
                          seed |-> IF kind = "default" THEN seed ELSE U64Zero]
           /\ made' = IF w.panicked THEN [NotMade EXCEPT !.plain = val]
                      ELSE [plain |-> val, buffer |-> buffer(w, PvSlot), len |-> len(w, PvSlot),
                            seed |-> IF kind = "default" THEN seed ELSE U64Zero]
           /\ thr' = [thr EXCEPT ![1].ref = ~w.panicked]
    /\ UNCHANGED build

\* Arc::clone(&handle), given to thread u.
ArcClone(t, u) ==
    /\ thr[t].ref
    /\ ~thr[u].ref
    /\ thr[u].pc # "dead"
    /\ thr' = [thr EXCEPT ![u].ref = TRUE]
    /\ last' = [NoOp EXCEPT !.op = "arc_clone", !.slot = OutSlot(u)]
    /\ UNCHANGED <<heap, mem, oslock, build, pv, made, panicked, gen, calc, cache, rw, fs, vec>>

BeginGetSecret(t, os1) ==
    /\ thr[t].ref
    /\ thr[t].pc = "idle"
    /\ Commit(get_secret_begin(World, OutSlot(t), os1),
              [NoOp EXCEPT !.op = "get_secret_begin", !.slot = OutSlot(t), !.src = pv.slot])
    /\ thr' = [thr EXCEPT ![t].pc = "cloned"]
    /\ UNCHANGED <<build, pv, made>>

\* A panic ends the thread: its buffer is dropped as it unwinds, its
\* reference in a later step.
EndGetSecret(t, crypt, os2) ==
    /\ thr[t].pc = "cloned"
    /\ \E w \in {get_secret_end(World, OutSlot(t), crypt, os2)} :
          /\ Commit([w EXCEPT !.panicked = FALSE],
                    [NoOp EXCEPT !.op = "get_secret", !.slot = OutSlot(t), !.src = pv.slot,
                                 !.bytes = IF w.panicked THEN <<>> ELSE value(w, OutSlot(t))])
          /\ thr' = [thr EXCEPT ![t].pc = IF w.panicked THEN "dead" ELSE "holds"]
    /\ UNCHANGED <<build, pv, made>>

\* The thread drops the buffer get_secret returned.
DropBuffer(t, os) ==
    /\ thr[t].pc = "holds"
    /\ \E w \in {drop(World, OutSlot(t), os)} :
          Commit(release(w, OutSlot(t)),
                 [NoOp EXCEPT !.op = "drop", !.slot = OutSlot(t),
                              !.n = Len(mem[heap[OutSlot(t)].buf]),
                              !.bytes = buffer(w, OutSlot(t))])
    /\ thr' = [thr EXCEPT ![t].pc = "idle"]
    /\ UNCHANGED <<build, pv, made>>

\* The thread drops its reference; a thread inside get_secret borrows it.
DropRef(t, os) ==
    /\ thr[t].ref
    /\ thr[t].pc # "cloned"
    /\ \E w \in {arc_drop(World, strong_count, os)} :
          Commit(IF strong_count = 1 THEN release(w, pv.slot) ELSE w,
                 [NoOp EXCEPT !.op = "arc_drop", !.slot = pv.slot, !.n = strong_count,
                              !.bytes = IF strong_count = 1 THEN buffer(w, pv.slot) ELSE <<>>])
    /\ thr' = [thr EXCEPT ![t].ref = FALSE]
    /\ pv' = IF strong_count = 1 THEN NoHandle ELSE pv
    /\ UNCHANGED <<build, made>>

InitShared ==
    /\ NoObjects
    /\ build \in [platform : Platforms, overflow_checks : BOOLEAN]
    /\ NoGens /\ NoCalcs /\ NoThreads /\ NoCallers /\ NoFiles /\ NoVecs /\ NoCaches

NextShared ==
    \/ \E val \in SharedPlains, seed \in SharedSeeds, os1 \in BOOLEAN, crypt \in BOOLEAN,
          os2 \in BOOLEAN : SharedProtect(val, seed, os1, crypt, os2)
    \/ \E t \in Threads, u \in Threads : ArcClone(t, u)
    \/ \E t \in Threads, os1 \in BOOLEAN : BeginGetSecret(t, os1)
    \/ \E t \in Threads, crypt \in BOOLEAN, os2 \in BOOLEAN : EndGetSecret(t, crypt, os2)
    \/ \E t \in Threads, os \in BOOLEAN : DropBuffer(t, os)
    \/ \E t \in Threads, os \in BOOLEAN : DropRef(t, os)

SpecShared == InitShared /\ [][NextShared]_vars

-----------------------------------------------------------------------------
(* SimpleCache: the engine behind the RwLock.  Every method of SimpleCache *)
(* runs its engine method while it holds the lock, so a call is one step.  *)

SimpleCacheEntry_new(val, counter) == [present |-> TRUE, value |-> val, counter |-> counter]

\* self.map.len()
SimpleCacheEngine_len(c) == Cardinality({k \in Keys : c.map[k].present})

SimpleCacheEngine_is_empty(c) == \A k \in Keys : ~c.map[k].present

\* next_counter(): the counter before the call is returned; the addition
\* panics or wraps at u64::MAX as the build has it.
next_counter(c, checks) ==
    LET sum == add_one(c.counter, checks)
    IN  [engine |-> [c EXCEPT !.counter = sum.val], ret |-> c.counter, overflow |-> sum.overflow]

RECURSIVE ScanOldest(_, _, _, _, _)
\* The loop of remove_oldest over self.map.iter(), which visits the entries
\* in the order `order`.
ScanOldest(c, order, i, key, oldest) ==
    IF i > Len(order) THEN key
    ELSE LET k == order[i]
         IN  IF c.map[k].present /\ lt_u64(c.map[k].counter, oldest)
             THEN ScanOldest(c, order, i + 1, k, c.map[k].counter)
             ELSE ScanOldest(c, order, i + 1, key, oldest)

\* remove_oldest removing the entry with the largest counter.
remove_newest(c, order) ==
    LET newest == {k \in Keys : c.map[k].present /\
                      \A j \in Keys : c.map[j].present =>
                          ~lt_u64(c.map[k].counter, c.map[j].counter)}
    IN  [c EXCEPT !.map = [k \in Keys |-> IF k \in newest THEN None ELSE c.map[k]]]

\* key = 0 stands for Option::None.
remove_oldest(c, order) ==
    LET key == ScanOldest(c, order, 1, 0, U64Max)
    IN  IF key # 0 THEN [c EXCEPT !.map[key] = None] ELSE c

\* get leaving the entry's counter as it was.
SimpleCacheEngine_get_untouched(c, key, checks) ==
    LET counter == next_counter(c, checks)
        entry == counter.engine.map[key]
    IN  IF counter.overflow THEN [engine |-> c, ret |-> None, panicked |-> TRUE]
        ELSE [engine |-> counter.engine, ret |-> entry, panicked |-> FALSE]

SimpleCacheEngine_get(c, key, checks) ==
    LET counter == next_counter(c, checks)
        entry == counter.engine.map[key]
    IN  IF counter.overflow THEN [engine |-> c, ret |-> None, panicked |-> TRUE]
        ELSE IF ~entry.present THEN [engine |-> counter.engine, ret |-> None, panicked |-> FALSE]
        ELSE [engine |-> [counter.engine EXCEPT !.map[key].counter = counter.ret],
              ret |-> entry, panicked |-> FALSE]

\* insert never removing an entry.
SimpleCacheEngine_insert_unbounded(c, key, val, order, checks) ==
    LET counter == next_counter(c, checks)
    IN  [engine |-> [counter.engine EXCEPT
                        !.map[key] = SimpleCacheEntry_new(val, counter.ret)],
         panicked |-> counter.overflow]

\* insert leaving the value of a key that is present.
SimpleCacheEngine_insert_keep(c, key, val, order, checks) ==
    LET counter == next_counter(c, checks)
        kept == IF c.map[key].present THEN c.map[key].value ELSE val
        inserted == [counter.engine EXCEPT
                        !.map[key] = SimpleCacheEntry_new(kept, counter.ret)]
    IN  [engine |-> IF SimpleCacheEngine_len(inserted) > inserted.max_size
                    THEN remove_oldest(inserted, order) ELSE inserted,
         panicked |-> counter.overflow]

SimpleCacheEngine_insert(c, key, val, order, checks) ==
    LET counter == next_counter(c, checks)
        inserted == [counter.engine EXCEPT
                        !.map[key] = SimpleCacheEntry_new(val, counter.ret)]
    IN  IF counter.overflow THEN [engine |-> c, panicked |-> TRUE]
        ELSE [engine |-> IF SimpleCacheEngine_len(inserted) > inserted.max_size
                         THEN remove_oldest(inserted, order) ELSE inserted,
              panicked |-> FALSE]

SimpleCacheEngine_clear(c) == [c EXCEPT !.map = [k \in Keys |-> None]]

\* The history of the keys after a call that touched `key` (0 for none) and
\* left the engine as c.
Touched(touched, key, c) ==
    LET moved == SelectSeq(touched, LAMBDA k : k # key) \o (IF key = 0 THEN <<>> ELSE <<key>>)
    IN  SelectSeq(moved, LAMBDA k : c.map[k].present)

RECURSIVE Orders(_)
\* The orders in which a HashMap may visit the keys S.
Orders(S) ==
    IF S = {} THEN {<<>>}
    ELSE UNION {{<<k>> \o o : o \in Orders(S \ {k})} : k \in S}

\* The orders self.map.iter() may take when insert(key, ..) calls
\* remove_oldest: those of the keys then in the map.  No order is drawn
\* when the map does not exceed max_size.
IterOrders(key) ==
    LET keys == {k \in Keys : cache.map[k].present} \cup {key}
    IN  IF Cardinality(keys) > cache.max_size THEN Orders(keys) ELSE {<<>>}

\* Fewer than MaxCalls calls took a counter so far.
CallsLeft == as_int(cache.counter) < MaxCalls

CacheStep(c, l) ==
    /\ cache' = c
    /\ last' = l
    /\ UNCHANGED <<heap, mem, oslock, build, pv, made, panicked, gen, calc, thr, rw, fs, vec>>

CacheInsert(key, val, order) ==
    /\ CallsLeft
    /\ \E r \in {SimpleCacheEngine_insert(cache, key, val, order, build.overflow_checks)} :
          CacheStep([r.engine EXCEPT !.touched = Touched(@, key, r.engine)],
                    [NoOp EXCEPT !.op = "insert", !.key = key, !.val = val,
                                 !.n = SimpleCacheEngine_len(cache),
                                 !.ret = cache.map[key].present,
                                 !.prev = cache.map[key].value])

CacheGet(key) ==
    /\ CallsLeft
    /\ \E r \in {SimpleCacheEngine_get(cache, key, build.overflow_checks)} :
          CacheStep([r.engine EXCEPT
                        !.touched = Touched(@, IF r.ret.present THEN key ELSE 0, r.engine)],
                    [NoOp EXCEPT !.op = "get", !.key = key, !.val = r.ret.value,
                                 !.n = SimpleCacheEngine_len(cache),
                                 !.ret = r.ret.present])

CacheClear ==
    \E c \in {SimpleCacheEngine_clear(cache)} :
        CacheStep([c EXCEPT !.touched = Touched(@, 0, c)],
                  [NoOp EXCEPT !.op = "clear", !.n = SimpleCacheEngine_len(cache)])

CacheLen ==
    CacheStep(cache, [NoOp EXCEPT !.op = "len", !.n = SimpleCacheEngine_len(cache),
                                  !.ret = SimpleCacheEngine_is_empty(cache)])

InitCache ==
    /\ NoObjects
    /\ build \in [platform : {"other"}, overflow_checks : BOOLEAN]
    /\ NoGens /\ NoCalcs /\ NoThreads /\ NoCallers /\ NoFiles /\ NoVecs
    /\ \E max_size \in 0..MaxCache : cache = SimpleCacheEngine_new(max_size)

NextCache ==
    \/ \E key \in Keys, val \in Values :
          \E order \in IterOrders(key) : CacheInsert(key, val, order)
    \/ \E key \in Keys : CacheGet(key)
    \/ CacheClear
    \/ CacheLen

SpecCache == InitCache /\ [][NextCache]_vars

-----------------------------------------------------------------------------
(* The concurrent-cache specification: threads calling the methods of one  *)
(* SimpleCache.  A call takes the lock, runs the engine's method in steps  *)
(* and drops its guard when it returns.                                    *)

\* RwLock::write granted without waiting for the other guards.
RwLock_write_unguarded(l, t) == TRUE

\* self.engine.write(): blocks while any guard exists.
RwLock_write(l, t) == \A u \in Callers : l.guard[u] = "none"

\* self.engine.read(): blocks while a write guard exists.
RwLock_read(l, t) == \A u \in Callers : l.guard[u] # "write"

\* The value thread t inserts.
ThreadValue(t) == 100 * t

\* insert, first half: let counter = self.next_counter();
\* self.map.insert(key, SimpleCacheEntry::new(value, counter));
insert_entry(c, key, val, checks) ==
    LET counter == next_counter(c, checks)
    IN  [counter.engine EXCEPT !.map[key] = SimpleCacheEntry_new(val, counter.ret)]

\* insert, second half: if self.map.len() > self.max_size { self.remove_oldest(); }
insert_evict(c, order) ==
    IF SimpleCacheEngine_len(c) > c.max_size THEN remove_oldest(c, order) ELSE c

\* get, second half: the entry's counter is set, or None is returned.
get_entry(c, key, counter) ==
    IF c.map[key].present THEN [c EXCEPT !.map[key].counter = counter] ELSE c

\* The engine after the whole of a call's method.
Whole(c, call) ==
    CASE call.op = "insert" ->
             SimpleCacheEngine_insert(c, call.key, call.val, call.order,
                                      build.overflow_checks).engine
      [] call.op = "get" -> SimpleCacheEngine_get(c, call.key, build.overflow_checks).engine
      [] call.op = "clear" -> SimpleCacheEngine_clear(c)
      [] OTHER -> c

\* A step of a call; `ls` is the value a len() that returns in this step
\* gave, NoOp otherwise.
RwStep(l, c, ls) ==
    /\ rw' = l
    /\ cache' = c
    /\ last' = ls
    /\ UNCHANGED <<heap, mem, oslock, build, pv, made, panicked, gen, calc, thr, fs, vec>>

\* Thread t calls a method that changes the engine and is given the write guard.
LockWrite(t, op, key, order) ==
    /\ rw.call[t].pc = "idle"
    \* the two threads share the calls of the model, less one
    /\ op \in {"insert", "get"} => as_int(cache.counter) < MaxCalls - 1
    /\ RwLock_write(rw, t)
    /\ LET call == [NoCall EXCEPT !.pc = "locked", !.op = op, !.key = key,
                                  !.val = IF op = "insert" THEN ThreadValue(t) ELSE 0,
                                  !.order = order]
       IN  RwStep([rw EXCEPT !.guard[t] = "write", !.call[t] = call,
                             !.seq = Whole(@, call),
                             !.inserted = CASE op = "insert" -> @ \cup {key}
                                            [] op = "clear" -> {}
                                            [] OTHER -> @],
                  cache, NoOp)

\* Thread t calls len() or is_empty() and is given a read guard.
LockRead(t) ==
    /\ rw.call[t].pc = "idle"
    /\ RwLock_read(rw, t)
    /\ RwStep([rw EXCEPT !.guard[t] = "read",
                         !.call[t] = [NoCall EXCEPT !.pc = "locked", !.op = "len"]],
              cache, NoOp)

\* The first half of insert or get, under the guard.
EngineBegin(t) ==
    LET call == rw.call[t]
        counter == next_counter(cache, build.overflow_checks)
    IN  /\ call.pc = "locked"
        /\ call.op \in {"insert", "get"}
        /\ RwStep([rw EXCEPT !.call[t].pc = "begun", !.call[t].counter = counter.ret],
                  IF call.op = "insert"
                  THEN insert_entry(cache, call.key, call.val, build.overflow_checks)
                  ELSE counter.engine,
                  NoOp)

\* The rest of the method; the guard is dropped as the method returns.
EngineEnd(t) ==
    LET call == rw.call[t]
        \* s.len(), under the read guard
        before == SimpleCacheEngine_len(cache)
    IN  /\ \/ call.pc = "begun"
           \/ call.pc = "locked" /\ call.op \in {"clear", "len"}
        /\ \E c \in {CASE call.op = "insert" -> insert_evict(cache, call.order)
                        [] call.op = "get" -> get_entry(cache, call.key, call.counter)
                        [] call.op = "clear" -> SimpleCacheEngine_clear(cache)
                        [] OTHER -> cache} :
              RwStep([rw EXCEPT !.guard[t] = "none", !.call[t] = NoCall],
                     c,
                     IF call.op = "len"
                     THEN [NoOp EXCEPT !.op = "len", !.slot = t, !.n = before,
                                       !.ret = SimpleCacheEngine_is_empty(cache)]
                     ELSE NoOp)

InitConcurrent ==
    /\ NoObjects
    /\ build = [platform |-> "other", overflow_checks |-> TRUE]
    /\ NoGens /\ NoCalcs /\ NoThreads /\ NoFiles /\ NoVecs
    /\ \E max_size \in 1..MaxCache :
          /\ cache = SimpleCacheEngine_new(max_size)
          /\ rw = [NoRwLock EXCEPT !.seq = cache]

NextConcurrent ==
    \/ \E t \in Callers, key \in Keys : \E order \in IterOrders(key) :
          LockWrite(t, "insert", key, order)
    \/ \E t \in Callers, key \in Keys : LockWrite(t, "get", key, <<>>)
    \/ \E t \in Callers : LockWrite(t, "clear", 0, <<>>)
    \/ \E t \in Callers : LockRead(t)
    \/ \E t \in Callers : EngineBegin(t)
    \/ \E t \in Callers : EngineEnd(t)

SpecConcurrent == InitConcurrent /\ [][NextConcurrent]_vars

-----------------------------------------------------------------------------
(* SharedFile: instances opened on files, each with a lock file of its     *)
(* own choosing or the default one, taking and dropping guards.            *)

\* DefaultSharedFileLockNameBuilder: "." + file name + ".lock~" in the
\* file's directory; one lock file per file.
create_lock_file_path(file) == file

\* fd_lock::RwLock::try_read on instance i's lock file: a shared lock,
\* refused while another open file holds the exclusive lock.
fd_lock_try_read(f, i) ==
    LET l == f.inst[i].lock
        ok == \A j \in Instances \ {i} : f.os[l][j] # "exclusive"
    IN  [ok |-> ok, fs |-> IF ok THEN [f EXCEPT !.os[l][i] = "shared"] ELSE f]

\* fd_lock::RwLock::try_write: the exclusive lock, refused while another
\* open file holds any lock.
fd_lock_try_write(f, i) ==
    LET l == f.inst[i].lock
        ok == \A j \in Instances \ {i} : f.os[l][j] = "none"
    IN  [ok |-> ok, fs |-> IF ok THEN [f EXCEPT !.os[l][i] = "exclusive"] ELSE f]

\* Drop of an fd_lock guard: the lock is released.
fd_lock_unlock(f, i) == [f EXCEPT !.os[f.inst[i].lock][i] = "none"]

\* Ok(Self { lock: RwLock::new(File::create(lock_file)?), file: options.open(file)? })
with_option_lock_file(f, i, file, lock_file) ==
    [f EXCEPT !.inst[i] = [open |-> TRUE, file |-> file, lock |-> lock_file, guard |-> "none"]]

\* new -> with_options -> with_option_builder with the default builder.
SharedFile_new(f, i, file) == with_option_lock_file(f, i, file, create_lock_file_path(file))

SharedFile_try_read(f, i) ==
    LET r == fd_lock_try_read(f, i)
    IN  [ok |-> r.ok, fs |-> IF r.ok THEN [r.fs EXCEPT !.inst[i].guard = "read"] ELSE f]

\* try_write taking the lock try_read takes.
SharedFile_try_write_shared(f, i) ==
    LET r == fd_lock_try_read(f, i)
    IN  [ok |-> r.ok, fs |-> IF r.ok THEN [r.fs EXCEPT !.inst[i].guard = "write"] ELSE f]

SharedFile_try_write(f, i) ==
    LET r == fd_lock_try_write(f, i)
    IN  [ok |-> r.ok, fs |-> IF r.ok THEN [r.fs EXCEPT !.inst[i].guard = "write"] ELSE f]

\* Drop of a guard that forgets its lock.
drop_guard_leaking(f, i) == [f EXCEPT !.inst[i].guard = "none"]

\* Drop of a SharedFileReadLockGuard or SharedFileWriteLockGuard: its
\* _lock field is dropped.
drop_guard(f, i) == [fd_lock_unlock(f, i) EXCEPT !.inst[i].guard = "none"]

FsStep(f, l) ==
    /\ fs' = f
    /\ last' = l
    /\ UNCHANGED <<heap, mem, oslock, build, pv, made, panicked, gen, calc, thr, cache, rw, vec>>

\* An instance is created in a free place.
SharedFileNew(i, file) ==
    /\ ~fs.inst[i].open
    /\ FsStep(SharedFile_new(fs, i, file),
              [NoOp EXCEPT !.op = "new", !.slot = i, !.ret = TRUE])

SharedFileWithLockFile(i, file, lock_file) ==
    /\ ~fs.inst[i].open
    /\ FsStep(with_option_lock_file(fs, i, file, lock_file),
              [NoOp EXCEPT !.op = "with_option_lock_file", !.slot = i, !.ret = TRUE])

\* &mut self: no call on an instance while a guard borrows it.
Free(i) == fs.inst[i].open /\ fs.inst[i].guard = "none"

TryRead(i) ==
    /\ Free(i)
    /\ \E r \in {SharedFile_try_read(fs, i)} :
          FsStep(r.fs, [NoOp EXCEPT !.op = "try_read", !.slot = i, !.ret = r.ok])

TryWrite(i) ==
    /\ Free(i)
    /\ \E r \in {SharedFile_try_write(fs, i)} :
          FsStep(r.fs, [NoOp EXCEPT !.op = "try_write", !.slot = i, !.ret = r.ok])

\* read(): as try_read, but the call waits until the lock is granted.
Read(i) ==
    /\ Free(i)
    /\ \E r \in {SharedFile_try_read(fs, i)} :
          /\ r.ok
          /\ FsStep(r.fs, [NoOp EXCEPT !.op = "read", !.slot = i, !.ret = TRUE])

Write(i) ==
    /\ Free(i)
    /\ \E r \in {SharedFile_try_write(fs, i)} :
          /\ r.ok
          /\ FsStep(r.fs, [NoOp EXCEPT !.op = "write", !.slot = i, !.ret = TRUE])

DropGuard(i) ==
    /\ fs.inst[i].guard # "none"
    /\ FsStep(drop_guard(fs, i),
              [NoOp EXCEPT !.op = "drop_guard", !.slot = i,
                           !.want = fs.inst[i].guard = "write"])

\* Drop of the instance: its files are closed.
DropSharedFile(i) ==
    /\ Free(i)
    /\ FsStep([fs EXCEPT !.inst[i] = NoInstance, !.os[fs.inst[i].lock][i] = "none"],
              [NoOp EXCEPT !.op = "drop_shared_file", !.slot = i])

InitFs ==
    /\ NoObjects
    /\ build = [platform |-> "other", overflow_checks |-> FALSE]
    /\ NoGens /\ NoCalcs /\ NoThreads /\ NoCaches /\ NoCallers /\ NoFiles /\ NoVecs

NextFs ==
    \/ \E i \in Instances, file \in Files : SharedFileNew(i, file)
    \/ \E i \in Instances, file \in Files, lock_file \in LockFiles :
          SharedFileWithLockFile(i, file, lock_file)
    \/ \E i \in Instances : TryRead(i)
    \/ \E i \in Instances : TryWrite(i)
    \/ \E i \in Instances : Read(i)
    \/ \E i \in Instances : Write(i)
    \/ \E i \in Instances : DropGuard(i)
    \/ \E i \in Instances : DropSharedFile(i)

SpecFs == InitFs /\ [][NextFs]_vars

-----------------------------------------------------------------------------
(* VecExtensions for Vec<u8> *)

\* self.capacity()
Vec_capacity(v) == Len(v.buf)
\* self.as_slice()
Vec_as_slice(v) == SubSeq(v.buf, 1, v.len)

\* A call that returned: the vector it left and the blocks it handed back.
Returned(v, freed) == [v |-> v, freed |-> freed, panicked |-> FALSE]
\* A call that panicked.
Panicked(v, freed) == [v |-> v, freed |-> freed, panicked |-> TRUE]

\* The allocation of a vector as it goes back to the allocator; a vector of
\* capacity 0 has none.
Vec_block(v) == IF Vec_capacity(v) = 0 THEN <<>> ELSE <<v.buf>>

\* Vec::with_capacity(n): n elements of uninitialised memory.
Vec_with_capacity(n) == [buf |-> [i \in 1..n |-> Uninit], len |-> 0]

\* Zeroize for Vec: the elements are zeroed, the vector is cleared and the
\* whole capacity is zeroed.
Vec_zeroize(v) == [buf |-> Zeros(Vec_capacity(v)), len |-> 0]

\* copy_nonoverlapping(src, dst.add(at), src.len())
copy_nonoverlapping(src, dst, at) ==
    [i \in 1..Len(dst) |-> IF at < i /\ i <= at + Len(src) THEN src[i - at] ELSE dst[i]]

\* More than isize::MAX.
ExceedsIsizeMax(x) == x[8] >= 128

\* Vec::reserve(additional).  Nothing happens when the spare capacity
\* suffices.  Otherwise len + additional is the capacity required: a sum
\* that overflows or exceeds isize::MAX bytes panics ("capacity overflow")
\* and leaves the vector as it was; else the buffer is reallocated (a vector
\* of capacity 0 allocates) with the capacity required and `spare` more, the
\* amount being the growth strategy's choice.
Vec_reserve(v, additional, spare) ==
    IF IsSmall(additional) /\ as_int(additional) <= Vec_capacity(v) - v.len
    THEN Returned(v, <<>>)
    ELSE LET required == add_usize(additional, v.len, TRUE)
         IN  IF required.overflow \/ ExceedsIsizeMax(required.val)
             THEN Panicked(v, <<>>)
             ELSE LET new_cap == as_int(required.val) + spare
                  IN  Returned([v EXCEPT !.buf = [i \in 1..new_cap |->
                                        IF i <= Vec_capacity(v) THEN v.buf[i] ELSE Uninit]],
                               Vec_block(v))

\* Vec::shrink_to_fit(): an empty vector gives its buffer back, another one
\* has it reallocated to its length.
Vec_shrink_to_fit(v) ==
    IF Vec_capacity(v) > v.len
    THEN Returned([v EXCEPT !.buf = SubSeq(v.buf, 1, v.len)], Vec_block(v))
    ELSE Returned(v, <<>>)

\* Vec::extend_from_slice(other)
Vec_extend_from_slice(v, other, spare) ==
    LET r == Vec_reserve(v, usize(Len(other)), spare)
    IN  IF r.panicked THEN r
        ELSE Returned([buf |-> copy_nonoverlapping(other, r.v.buf, v.len),
                       len |-> v.len + Len(other)], r.freed)

set_capacity_to(v, n, spare) ==
    LET curr_capacity == Vec_capacity(v)
    IN  IF lt_u64(usize(curr_capacity), n)
        THEN Vec_reserve(v, sub_usize(n, v.len), spare)
        ELSE Returned(v, <<>>)

set_contents_from_slice(v, other, spare) ==
    LET r == set_capacity_to(v, usize(Len(other)), spare)
    IN  IF r.panicked THEN r
        ELSE Returned([buf |-> copy_nonoverlapping(other, r.v.buf, 0), len |-> Len(other)],
                      r.freed)

\* with_value(value): Vec::with_capacity(value.len()), then the contents.
Vec_with_value(val) == set_contents_from_slice(Vec_with_capacity(Len(val)), val, 0).v

\* set_capacity_to_secure resizing the vector without zeroing it first.
set_capacity_to_secure_unwiped(v, n, spare) ==
    LET r == set_capacity_to(v, n, spare)
    IN  IF r.panicked THEN r ELSE Returned(r.v, r.freed)

\* A panic of set_capacity_to unwinds through the caller: `tmp` is dropped
\* as it is, and self stays zeroed and empty.
set_capacity_to_secure(v, n, spare) ==
    LET curr_capacity == Vec_capacity(v)
    IN  IF ~lt_u64(usize(curr_capacity), n) THEN Returned(v, <<>>)
        ELSE IF v.len = 0 THEN set_capacity_to(Vec_zeroize(v), n, spare)
        ELSE LET tmp == set_contents_from_slice(Vec_with_capacity(v.len), Vec_as_slice(v), 0).v
                 \* self.zeroize(); self.truncate(0)
                 zeroed == Vec_zeroize(v)
                 r == set_capacity_to(zeroed, n, spare)
             IN  IF r.panicked THEN Panicked(r.v, r.freed \o Vec_block(tmp))
                 \* assert!(self.capacity() >= tmp.len())
                 ELSE IF Vec_capacity(r.v) < tmp.len
                 THEN Panicked(r.v, r.freed \o Vec_block(tmp))
                 ELSE Returned([buf |-> copy_nonoverlapping(Vec_as_slice(tmp), r.v.buf, 0),
                                len |-> tmp.len],
                               r.freed \o Vec_block(Vec_zeroize(tmp)))

set_contents_from_slice_secure(v, other, spare) ==
    LET r == Vec_reserve(Vec_zeroize(v), usize(Len(other)), spare)
    IN  IF r.panicked THEN r
        ELSE Returned([buf |-> copy_nonoverlapping(other, r.v.buf, 0), len |-> Len(other)],
                      r.freed)

shrink_to_fit_secure(v, spare) ==
    LET tmp == set_contents_from_slice(Vec_with_capacity(v.len), Vec_as_slice(v), 0).v
        shrunk == Vec_shrink_to_fit(Vec_zeroize(v))
        r == set_contents_from_slice(shrunk.v, Vec_as_slice(tmp), spare)
    IN  IF r.panicked THEN Panicked(r.v, shrunk.freed \o r.freed \o Vec_block(tmp))
        ELSE Returned(r.v, shrunk.freed \o r.freed \o Vec_block(Vec_zeroize(tmp)))

\* self.len() + additional is a plain addition: beyond usize::MAX it panics
\* with overflow checks and wraps without them.
reserve_secure(v, additional, checks, spare) ==
    LET sum == add_usize(additional, v.len, checks)
    IN  IF sum.overflow THEN Panicked(v, <<>>)
        ELSE set_capacity_to_secure(v, sum.val, spare)

extend_from_slice_secure(v, other, checks, spare) ==
    LET r == reserve_secure(v, usize(Len(other)), checks, spare)
    IN  IF r.panicked THEN r
        \* assert!(self.capacity() >= self.len() + other.len())
        ELSE IF Vec_capacity(r.v) < r.v.len + Len(other) THEN Panicked(r.v, r.freed)
        ELSE Returned([buf |-> copy_nonoverlapping(other, r.v.buf, r.v.len),
                       len |-> r.v.len + Len(other)], r.freed)

\* The slices and the capacities callers pass: up to MaxCap, and the two
\* ends of the capacities no allocation can have (isize::MAX + 1, usize::MAX).
Slices == SeqsUpTo(Elems, MaxSlice)
IsizeMaxPlusOne == U64(0, 0, 0, 0, 0, 0, 0, 128)
Capacities == {usize(c) : c \in 0..MaxCap} \cup {IsizeMaxPlusOne, U64Max}
\* What the growth strategy adds to the capacity required.
Spares == {0, 1}

\* A call on the vector; the vector stays within the bound of the model.
VecStep(r, op, n, other) ==
    /\ Vec_capacity(r.v) <= MaxCap
    /\ vec' = [v |-> r.v, op |-> op, before |-> vec.v, n |-> n, other |-> other,
               freed |-> r.freed, panicked |-> r.panicked]
    /\ UNCHANGED <<heap, mem, oslock, last, build, pv, made, panicked, gen, calc, thr,
                   cache, rw, fs>>

\* A new vector takes the place of the old one.
VecWithValue(val) ==
    VecStep(Returned(Vec_with_value(val), <<>>), "with_value", U64Zero, val)

SetCapacityTo(n, spare) ==
    VecStep(set_capacity_to(vec.v, n, spare), "set_capacity_to", n, <<>>)

SetCapacityToSecure(n, spare) ==
    VecStep(set_capacity_to_secure(vec.v, n, spare), "set_capacity_to_secure", n, <<>>)

SetContentsFromSlice(other, spare) ==
    VecStep(set_contents_from_slice(vec.v, other, spare), "set_contents_from_slice",
            U64Zero, other)

SetContentsFromSliceSecure(other, spare) ==
    VecStep(set_contents_from_slice_secure(vec.v, other, spare),
            "set_contents_from_slice_secure", U64Zero, other)

ShrinkToFitSecure(spare) ==
    VecStep(shrink_to_fit_secure(vec.v, spare), "shrink_to_fit_secure", U64Zero, <<>>)

ReserveSecure(additional, spare) ==
    VecStep(reserve_secure(vec.v, additional, build.overflow_checks, spare),
            "reserve_secure", additional, <<>>)

ExtendFromSliceSecure(other, spare) ==
    VecStep(extend_from_slice_secure(vec.v, other, build.overflow_checks, spare),
            "extend_from_slice_secure", U64Zero, other)

InitVec ==
    /\ NoObjects
    /\ \E checks \in BOOLEAN : build = [platform |-> "other", overflow_checks |-> checks]
    /\ NoGens /\ NoCalcs /\ NoThreads /\ NoCaches /\ NoCallers /\ NoFiles /\ NoVecs

NextVec ==
    \/ \E val \in Slices : VecWithValue(val)
    \/ \E n \in Capacities, spare \in Spares : SetCapacityTo(n, spare)
    \/ \E n \in Capacities, spare \in Spares : SetCapacityToSecure(n, spare)
    \/ \E other \in Slices, spare \in Spares : SetContentsFromSlice(other, spare)
    \/ \E other \in Slices, spare \in Spares : SetContentsFromSliceSecure(other, spare)
    \/ \E spare \in Spares : ShrinkToFitSecure(spare)
    \/ \E additional \in Capacities, spare \in Spares : ReserveSecure(additional, spare)
    \/ \E other \in Slices, spare \in Spares : ExtendFromSliceSecure(other, spare)

SpecVec == InitVec /\ [][NextVec]_vars

-----------------------------------------------------------------------------
(* Properties *)

AllZero(bytes) == \A i \in 1..Len(bytes) : bytes[i] = 0

LockRefused(l) == Len(l.calls) = 1 /\ l.calls[1].call = "lock" /\ ~l.calls[1].ok
LockGranted(l) == Len(l.calls) = 1 /\ l.calls[1].call = "lock" /\ l.calls[1].ok

\* C1: the round trip: for every plaintext B the handle is created and every
\* get_secret() returns a buffer whose value() is B; the only operation that
\* may end without a value is one whose OS encryption or decryption failed.
C1_RoundTrip ==
    /\ last.op = "create_protected_value" /\ build.platform # "windows" => ~panicked
    /\ last.op = "get_secret" =>
          \/ panicked /\ build.platform = "windows"
          \/ ~panicked /\ last.bytes = made.plain

\* C2: a SecretBytes is released with every byte of its whole buffer zero,
\* whatever its logical length and contents were.
C2_DropWipesWholeBuffer ==
    last.op = "drop" => Len(last.bytes) = last.n /\ AllZero(last.bytes)

C2_Witness ==
    last.op = "drop" /\ last.n >= 2 /\ last.hidden

\* C3: the logical length of every live SecretBytes is at most the length
\* of its buffer.
C3_LenWithinBuffer ==
    \A s \in Slots : heap[s].st = "live" => heap[s].len <= Len(mem[heap[s].buf])

C3_Witness ==
    /\ last.op = "set_len"
    /\ last.n > Len(mem[heap[last.slot].buf])
    /\ heap[last.slot].len = Len(mem[heap[last.slot].buf])
    /\ heap[last.slot].len >= 1

\* C4: set_len(n) sets the logical length to n, or to the buffer length when
\* n is larger, and changes neither the buffer (its length, its bytes) nor
\* the locked flag.
C4_SetLenClamps ==
    [][last'.op = "set_len" =>
          LET s == last'.slot
              cap == Len(mem[heap[s].buf])
          IN  /\ heap'[s].len = (IF last'.n <= cap THEN last'.n ELSE cap)
              /\ heap'[s].buf = heap[s].buf
              /\ heap'[s].locked = heap[s].locked
              /\ mem' = mem
              /\ oslock' = oslock]_vars

C4_Witness ==
    /\ last.op = "set_len"
    /\ last.n = heap[last.slot].len
    /\ Hidden(last.slot)

\* C5: locked() is true only while the OS holds the buffer locked; an object
\* built without the lock requested, with size 0, or whose lock call was
\* refused reports locked() = FALSE.
C5_LockedOnlyIfOsLocked ==
    /\ \A s \in Slots : heap[s].st = "live" /\ heap[s].locked => oslock[heap[s].buf]
    /\ last.op \in {"new", "with_value", "clone"} =>
          (heap[last.slot].locked => LockGranted(last))
    /\ last.op \in {"new", "with_value"} /\ (~last.want \/ last.n = 0) =>
          ~heap[last.slot].locked

C5_Witness ==
    /\ \E s \in Slots : heap[s].st = "live" /\ heap[s].locked
    /\ last.op = "new" /\ last.want /\ last.n > 0
    /\ LockRefused(last)
    /\ ~heap[last.slot].locked

\* C6: lock_mem and unlock_mem with size 0 return false without calling the
\* platform; with size > 0 they call it once, on size * size_of::<T>() bytes,
\* and return its answer.
C6_ZeroSizeSkipsPlatform ==
    last.op \in {"lock_mem", "unlock_mem"} =>
        IF last.n = 0
        THEN ~last.ret /\ last.calls = <<>>
        ELSE /\ last.ret = last.os
             /\ Len(last.calls) = 1
             /\ last.calls[1].call = (IF last.op = "lock_mem" THEN "lock" ELSE "unlock")
             /\ last.calls[1].size = last.n * last.elem
             /\ last.calls[1].ok = last.os

C6_Witness ==
    last.op = "lock_mem" /\ last.n = 0 /\ last.os /\ ~last.ret

\* C7: a refused page lock is not fatal: new and with_value still return the
\* buffer asked for, unlocked, and no operation panics or loses its object
\* because a lock or unlock call was refused.
C7_LockFailureNotFatal ==
    /\ last.op \in {"new", "with_value"} /\ last.want /\ LockRefused(last) =>
          /\ heap[last.slot].st = "live"
          /\ heap[last.slot].len = last.n
          /\ mem[heap[last.slot].buf] = last.bytes
          /\ ~heap[last.slot].locked
    /\ (\E i \in 1..Len(last.calls) : ~last.calls[i].ok) =>
          /\ ~panicked
          /\ last.op # "drop" => heap[last.slot].st = "live"

C7_Witness ==
    /\ last.op = "with_value" /\ last.want /\ LockRefused(last)
    /\ last.n = 2
    /\ ~AllZero(mem[heap[last.slot].buf])

\* C8: clone() yields an object with the original's whole buffer (the bytes
\* beyond len() included) and the original's len().
C8_CloneCopiesWholeBuffer ==
    [][last'.op = "clone" =>
          LET src == last'.src
              dst == last'.slot
          IN  /\ heap'[dst].st = "live"
              /\ mem'[heap'[dst].buf] = mem[heap[src].buf]
              /\ heap'[dst].len = heap[src].len]_vars

C8_Witness ==
    /\ last.op = "clone"
    /\ Hidden(last.src)
    /\ Hidden(last.slot)

\* C9: an operation on one SecretBytes (a write, set_len, its destruction,
\* the making of a clone) leaves every other live SecretBytes as it was:
\* its bytes, its len() and its locked().
C9_CloneIndependence ==
    [][\A t \in Slots :
          heap[t].st = "live" /\ t # last'.slot =>
              /\ heap'[t] = heap[t]
              /\ mem'[heap[t].buf] = mem[heap[t].buf]]_vars

C9_Witness ==
    /\ last.op = "drop" /\ last.slot = 2 /\ last.n = 1
    /\ heap[1].st = "live"
    /\ mem[heap[1].buf] = <<167>>

\* C10: get_secret() leaves the handle as its constructor made it (encoded
\* bytes, logical length, seed), and the buffers it returns hold the same
\* bytes.
C10_GetSecretLeavesHandle ==
    /\ pv.kind # "none" =>
          /\ heap[pv.slot].st = "live"
          /\ mem[heap[pv.slot].buf] = made.buffer
          /\ heap[pv.slot].len = made.len
          /\ pv.seed = made.seed
    /\ \A r1 \in OutSlots, r2 \in OutSlots :
          heap[r1].st = "live" /\ heap[r2].st = "live" =>
              /\ heap[r1].len = heap[r2].len
              /\ mem[heap[r1].buf] = mem[heap[r2].buf]

C10_Witness ==
    /\ last.op = "get_secret" /\ ~panicked
    /\ pv.kind # "none"
    /\ \A r \in {2, 3} : heap[r].st = "live"
    /\ Len(made.plain) = 2

\* C13: one step of the keystream generator never fails: a generator that
\* was asked for a byte has emitted it, its state is the previous state times
\* 6364136223846793005 plus 1 modulo 2^64, and the byte is bits 32..39 of it.
C13_StepCompletes ==
    \A g \in Generators :
        /\ ~gen[g].failed
        /\ Len(gen[g].out) >= 1 => gen[g].out[Len(gen[g].out)] = gen[g].state[5]
        /\ Len(gen[g].out) = 1 =>
              gen[g].state = IncFrom(wrapping_mul(gen[g].seed, Multiplier), 1)

\* C14: the bytes a generator emits depend on its seed alone: two generators
\* of the same seed agree on every byte both have emitted and fail at the
\* same call, and seed 1234 gives 0x5b, 0x18, 0x2a.
C14_KeystreamOfSeed ==
    /\ \A g \in Generators, h \in Generators :
          gen[g].started /\ gen[h].started /\ gen[g].seed = gen[h].seed =>
              /\ \A i \in 1..min(Len(gen[g].out), Len(gen[h].out)) :
                    gen[g].out[i] = gen[h].out[i]
              /\ Len(gen[g].out) = Len(gen[h].out) => gen[g].state = gen[h].state
              /\ gen[g].failed /\ gen[h].failed => Len(gen[g].out) = Len(gen[h].out)
              /\ gen[g].failed => Len(gen[h].out) <= Len(gen[g].out)
    /\ \A g \in Generators :
          gen[g].started /\ gen[g].seed = Seed1234 =>
              /\ ~gen[g].failed
              /\ \A i \in 1..min(Len(gen[g].out), 3) :
                    gen[g].out[i] = <<91, 24, 42>>[i]

C14_Witness ==
    /\ gen[1].seed = Seed1234 /\ gen[2].seed = Seed1234
    /\ gen[1].out = <<91, 24, 42>>
    /\ gen[2].out = <<91, 24, 42>>

\* C12: apply_mask is its own inverse: applied to a slice and again, with
\* the same seed, to the result, it completes both times and leaves the
\* slice as it was given.
C12_MaskSelfInverse ==
    /\ calc.op \in {"apply_mask", "apply_mask_twice"} => ~calc.failed
    /\ calc.op = "apply_mask_twice" => calc.twice = calc.x

\* The sizes as_int and Below can measure.
NearMax(x) == \A i \in 4..8 : x[i] = 255
\* usize::MAX - x, for x near usize::MAX.
Below(x) == as_int([i \in 1..8 |-> 255 - x[i]])

\* protected_size(n) returned the multiple of block_size that is greater
\* than n by 1 to block_size.
NextBlock(c) ==
    LET block_size == CRYPTPROTECTMEMORY_BLOCK_SIZE
    IN  /\ ~c.failed
        /\ IF IsSmall(c.n)
           THEN /\ IsSmall(c.ret)
                /\ as_int(c.ret) = ((as_int(c.n) \div block_size) + 1) * block_size
           ELSE /\ NearMax(c.ret)
                /\ Below(c.ret) % block_size = block_size - 1
                /\ Below(c.n) - Below(c.ret) \in 1..block_size

\* C15 as stated: for every n, protected_size(n) is the smallest multiple of
\* block_size strictly greater than n.
C15_ProtectedSizeEveryN ==
    calc.op = "protected_size" => NextBlock(calc)

\* C15: for every n <= usize::MAX - block_size, protected_size(n) is the
\* smallest multiple of block_size strictly greater than n: it adds between 1
\* and block_size bytes, a whole block when n is a multiple.  For a larger n
\* that multiple is no usize: the sum overflows (a panic with overflow
\* checks, 0 without them).
C15_ProtectedSize ==
    calc.op = "protected_size" =>
        IF IsSmall(calc.n) \/ Below(calc.n) >= CRYPTPROTECTMEMORY_BLOCK_SIZE
        THEN NextBlock(calc)
        ELSE calc.failed = build.overflow_checks /\ (~calc.failed => calc.ret = U64Zero)

C15_Witness ==
    /\ calc.op = "protected_size"
    /\ calc.n = usize(2 * CRYPTPROTECTMEMORY_BLOCK_SIZE)
    /\ calc.ret = usize(3 * CRYPTPROTECTMEMORY_BLOCK_SIZE)

\* The operation made a call of the OS primitive `call` that failed.
CryptFailed(l, call) == \E i \in 1..Len(l.calls) : l.calls[i].call = call /\ ~l.calls[i].ok

\* C16: in the Windows strategy a failed OS encryption or decryption is
\* fatal: new() panics and leaves no handle and no buffer, get_secret()
\* panics and returns no buffer; an operation whose OS call succeeded does
\* not panic.
C16_CryptFailureFatal ==
    /\ last.op = "create_protected_value" /\ build.platform = "windows" =>
          IF CryptFailed(last, "encrypt")
          THEN panicked /\ pv = NoHandle /\ heap[last.slot].st = "free"
          ELSE ~panicked /\ pv.kind = "win32"
    /\ last.op = "get_secret" /\ build.platform = "windows" =>
          IF CryptFailed(last, "decrypt")
          THEN panicked /\ heap[last.slot].st = "free" /\ last.bytes = <<>>
          ELSE ~panicked /\ heap[last.slot].st = "live"

C16_Witness ==
    /\ last.op = "get_secret"
    /\ CryptFailed(last, "decrypt")
    /\ pv.kind = "win32"
    /\ panicked

\* The handle is as its constructor left it.
HandleIntact ==
    /\ heap[pv.slot].st = "live"
    /\ mem[heap[pv.slot].buf] = made.buffer
    /\ heap[pv.slot].len = made.len
    /\ pv.seed = made.seed

\* C11: on one shared handle made from B, under every interleaving of the
\* threads' get_secret() calls and of the drops of the buffers returned,
\* every buffer a thread holds has value() = B, every call that returns
\* returns B (on the default strategy every call returns), and neither a
\* call nor the wipe of a returned buffer changes the handle.
C11_ConcurrentGetSecret ==
    /\ pv.kind # "none" => HandleIntact
    /\ \A t \in Threads :
          /\ thr[t].pc = "holds" =>
                /\ heap[OutSlot(t)].st = "live"
                /\ SubSeq(mem[heap[OutSlot(t)].buf], 1, heap[OutSlot(t)].len) = made.plain
          /\ thr[t].pc = "cloned" => heap[OutSlot(t)].buf = OutSlot(t)
          /\ thr[t].pc = "dead" => build.platform = "windows"
    /\ last.op = "get_secret" /\ thr[last.slot - 1].pc = "holds" => last.bytes = made.plain
    /\ last.op = "drop" => AllZero(last.bytes) /\ Len(last.bytes) = last.n

C11_Witness ==
    /\ last.op = "drop" /\ last.slot = OutSlot(1) /\ last.n >= 2
    /\ thr[2].pc = "holds"
    /\ pv.kind = "default"
    /\ Len(made.plain) = 2

\* C17: the handle's encoded buffer lives, unchanged, exactly while a
\* reference exists: the drop of a reference that is not the last leaves it
\* as it is, the drop of the last one wipes it whole and releases it, and
\* Arc::clone changes no buffer and makes none.
C17_WipedWithLastReference ==
    /\ [](made # NotMade /\ ~panicked =>
            /\ (pv.kind # "none") = (strong_count >= 1)
            /\ pv.kind # "none" => HandleIntact
            /\ pv.kind = "none" => heap[PvSlot].st = "free"
            /\ last.op = "get_secret" /\ thr[last.slot - 1].pc = "holds" =>
                  last.bytes = made.plain
            /\ last.op = "arc_drop" =>
                  IF last.n = 1
                  THEN pv.kind = "none" /\ Len(last.bytes) = Len(made.buffer)
                       /\ AllZero(last.bytes)
                  ELSE pv.kind # "none")
    /\ [][last'.op = "arc_clone" => heap' = heap /\ mem' = mem /\ pv' = pv]_vars

C17_Witness ==
    /\ last.op = "get_secret" /\ last.slot = OutSlot(2)
    /\ ~thr[1].ref /\ thr[2].ref
    /\ thr[2].pc = "holds"
    /\ last.bytes = <<1, 200>>

\* C18: a SimpleCache never holds more than max_size entries when a call
\* has returned, and len() returns the number of entries.
C18_CacheWithinMaxSize ==
    /\ SimpleCacheEngine_len(cache) <= cache.max_size
    /\ last.op = "len" => last.n = SimpleCacheEngine_len(cache) /\ last.n <= cache.max_size

C18_Witness ==
    /\ last.op = "insert" /\ ~last.ret
    /\ last.n = cache.max_size
    /\ cache.max_size = 2
    /\ SimpleCacheEngine_len(cache) = 2

\* C19: an insert of a new key into a cache holding max_size >= 1 entries
\* removes exactly one entry, the one whose last insert or successful get is
\* the oldest, never the entry just inserted: the new key is present with its
\* value and every other entry is as it was.
C19_EvictsOldest ==
    [][last'.op = "insert" /\ ~last'.ret /\ last'.n = cache.max_size /\ cache.max_size >= 1 =>
          LET key == last'.key
              victim == Head(cache.touched)
          IN  /\ victim # key
              /\ ~cache'.map[victim].present
              /\ cache'.map[key].present
              /\ cache'.map[key].value = last'.val
              /\ \A k \in Keys \ {key, victim} : cache'.map[k] = cache.map[k]
              /\ SimpleCacheEngine_len(cache') = cache.max_size]_vars

\* Keys 1 and 2 were inserted in this order, 1 was read, then the insert of
\* 3 removed 2.
C19_Witness ==
    /\ last.op = "insert" /\ last.key = 3 /\ ~last.ret
    /\ cache.max_size = 2
    /\ cache.touched = <<1, 3>>
    /\ ~cache.map[2].present
    /\ cache.map[1].counter = usize(2)

\* C20: an insert under a key that is present replaces its value: the number
\* of entries stays, every other entry is as it was, and the key has the new
\* value.
C20_InsertReplaces ==
    [][last'.op = "insert" /\ last'.ret =>
          LET key == last'.key
          IN  /\ cache'.map[key].present
              /\ cache'.map[key].value = last'.val
              /\ \A k \in Keys \ {key} : cache'.map[k] = cache.map[k]
              /\ SimpleCacheEngine_len(cache') = SimpleCacheEngine_len(cache)]_vars

C20_Witness ==
    /\ last.op = "insert" /\ last.ret
    /\ last.prev = 100 /\ last.val = 200
    /\ cache.map[last.key].value = 200
    /\ SimpleCacheEngine_len(cache) = cache.max_size
    /\ cache.max_size = 2

\* No thread is in a call on the cache.
Quiet == \A t \in Callers : rw.call[t].pc = "idle"

\* C21: the methods of SimpleCache are thread-safe.  Whenever no thread holds
\* the write guard, the engine is what the calls made so far leave when they
\* run one after the other in the order they took the lock; len() returns
\* the number of entries of that engine, never more than max_size; and when
\* the keys the threads inserted since the last clear() are at most
\* max_size, every one of them is present once the calls have returned.
C21_ThreadSafe ==
    /\ (\A t \in Callers : rw.guard[t] # "write") => cache = rw.seq
    /\ Quiet /\ Cardinality(rw.inserted) <= cache.max_size =>
          \A k \in rw.inserted : cache.map[k].present
    /\ last.op = "len" =>
          /\ last.n = SimpleCacheEngine_len(rw.seq)
          /\ last.n <= cache.max_size
          /\ last.ret = (last.n = 0)

\* Both threads have inserted, thread 2 last; the two keys fill the cache
\* and both are present.
C21_Witness ==
    /\ cache.max_size = 2
    /\ rw.inserted = {1, 2}
    /\ cache.map[1].present /\ cache.map[1].value = ThreadValue(1)
    /\ cache.map[2].present /\ cache.map[2].value = ThreadValue(2)
    /\ Quiet

\* Two different instances that are open on the same file / hold the same
\* lock file open.
SameFile(i, j) ==
    i # j /\ fs.inst[i].open /\ fs.inst[j].open /\ fs.inst[i].file = fs.inst[j].file
SameLockFile(i, j) ==
    i # j /\ fs.inst[i].open /\ fs.inst[j].open /\ fs.inst[i].lock = fs.inst[j].lock

\* The last call was try_read / try_write on instance j.
Tried(op, j) == last.op = op /\ last.slot = j

\* C22 as stated: for instances that point to the same file, a write guard
\* coexists with no other guard; while one holds a write guard, try_read and
\* try_write on another fail; while one holds a read guard, try_write on
\* another fails and try_read on another succeeds.
C22_SameFileExclusion ==
    \A i \in Instances, j \in Instances :
        SameFile(i, j) =>
            /\ fs.inst[i].guard = "write" => fs.inst[j].guard = "none"
            /\ fs.inst[i].guard = "write" /\ (Tried("try_read", j) \/ Tried("try_write", j)) =>
                  ~last.ret
            /\ fs.inst[i].guard = "read" /\ Tried("try_write", j) => ~last.ret
            /\ fs.inst[i].guard = "read" /\ Tried("try_read", j) => last.ret

\* C22, amended: the same for instances that hold the same lock file open.
C22_SameLockFileExclusion ==
    \A i \in Instances, j \in Instances :
        SameLockFile(i, j) =>
            /\ fs.inst[i].guard = "write" => fs.inst[j].guard = "none"
            /\ fs.inst[i].guard = "write" /\ (Tried("try_read", j) \/ Tried("try_write", j)) =>
                  ~last.ret
            /\ fs.inst[i].guard = "read" /\ Tried("try_write", j) => ~last.ret
            /\ fs.inst[i].guard = "read" /\ Tried("try_read", j) => last.ret

\* Instance 1, made by new(), holds a write guard and try_read on instance
\* 2, made by new() for the same file, has failed.
C22_Witness ==
    /\ SameFile(1, 2) /\ SameLockFile(1, 2)
    /\ fs.inst[1].lock = create_lock_file_path(fs.inst[1].file)
    /\ fs.inst[1].guard = "write"
    /\ Tried("try_read", 2) /\ ~last.ret
    /\ fs.inst[2].guard = "none"

\* C23 as stated: a dropped guard has released its lock; when no other
\* instance holds a guard on the file, try_write succeeds, and when none
\* holds a write guard on the file, try_read succeeds.
C23_ReleasedForFile ==
    /\ last.op = "drop_guard" => \A l \in LockFiles : fs.os[l][last.slot] = "none"
    /\ \A j \in Instances :
          /\ Tried("try_write", j) /\ (\A i \in Instances : SameFile(i, j) =>
                                           fs.inst[i].guard = "none") => last.ret
          /\ Tried("try_read", j) /\ (\A i \in Instances : SameFile(i, j) =>
                                          fs.inst[i].guard # "write") => last.ret

\* C23, amended: the OS holds a lock on a lock file only for an instance
\* with a live guard, so a dropped guard has released its lock; when no
\* other instance holds a guard on the lock file, try_write succeeds, and
\* when none holds a write guard on the lock file, try_read succeeds.
C23_ReleasedForLockFile ==
    /\ \A i \in Instances, l \in LockFiles :
          fs.os[l][i] # "none" =>
              fs.inst[i].open /\ fs.inst[i].lock = l /\ fs.inst[i].guard # "none"
    /\ last.op = "drop_guard" => \A l \in LockFiles : fs.os[l][last.slot] = "none"
    /\ \A j \in Instances :
          /\ Tried("try_write", j) /\ (\A i \in Instances : SameLockFile(i, j) =>
                                           fs.inst[i].guard = "none") => last.ret
          /\ Tried("try_read", j) /\ (\A i \in Instances : SameLockFile(i, j) =>
                                          fs.inst[i].guard # "write") => last.ret

\* Instance 1 has dropped its write guard while instance 2 holds the same
\* lock file open: the OS holds no lock on it.
C23_Witness ==
    /\ SameLockFile(1, 2)
    /\ last.op = "drop_guard" /\ last.slot = 1 /\ last.want
    /\ fs.inst[1].guard = "none" /\ fs.inst[2].guard = "none"
    /\ \A i \in Instances : fs.os[fs.inst[1].lock][i] = "none"

\* The secure variants of the vector methods.
SecureOps == {"set_capacity_to_secure", "reserve_secure", "extend_from_slice_secure",
              "shrink_to_fit_secure", "set_contents_from_slice_secure"}

\* C24: every block a secure variant of the vector methods hands back to the
\* allocator (the vector's old buffer, the temporary copy) holds only zero
\* elements at that moment.
C24_ZeroBeforeRelease ==
    vec.op \in SecureOps => \A i \in 1..Len(vec.freed) : AllZero(vec.freed[i])

\* capacity() of the vector is at least the usize n.
CapacityAtLeast(v, n) == ~lt_u64(usize(Vec_capacity(v)), n)

\* C25: the secure variants do what the regular methods do.
\* set_capacity_to_secure, reserve_secure and shrink_to_fit_secure leave the
\* elements and the length as they were; when the first two return, the
\* capacity is at least the one requested (for reserve_secure, the length
\* plus `additional`); extend_from_slice_secure ends as Vec::extend_from_slice
\* does, with the same elements.
C25_SameOperation ==
    /\ vec.op \in {"set_capacity_to_secure", "reserve_secure", "shrink_to_fit_secure"}
          => Vec_as_slice(vec.v) = Vec_as_slice(vec.before)
    /\ vec.op = "set_capacity_to_secure" /\ ~vec.panicked => CapacityAtLeast(vec.v, vec.n)
    /\ vec.op = "reserve_secure" /\ ~vec.panicked
          => LET requested == add_usize(vec.n, vec.before.len, TRUE)
             IN  ~requested.overflow /\ CapacityAtLeast(vec.v, requested.val)
    /\ vec.op = "extend_from_slice_secure"
          => \E spare \in Spares :
                LET regular == Vec_extend_from_slice(vec.before, vec.other, spare)
                IN  /\ vec.panicked = regular.panicked
                    /\ Vec_as_slice(vec.v) = Vec_as_slice(regular.v)

\* The calls of the operation l named `call`, by position.
CallsOf(l, call) == {i \in 1..Len(l.calls) : l.calls[i].call = call}

\* The operation l destroyed one SecretBytes whose locked() was `was_locked`
\* then: the pages are unlocked exactly if it was locked, they are wiped when
\* they are unlocked, and the unlock comes before the buffer, wiped, goes
\* back to the allocator.
DestroyedInOrder(l, was_locked) ==
    /\ Cardinality(CallsOf(l, "free")) = 1
    /\ Cardinality(CallsOf(l, "unlock")) = (IF was_locked THEN 1 ELSE 0)
    /\ \A i \in CallsOf(l, "unlock") :
          /\ l.calls[i].wiped
          /\ \A j \in CallsOf(l, "free") : i < j
          /\ \A j \in CallsOf(l, "encrypt") \cup CallsOf(l, "decrypt") \cup CallsOf(l, "lock") :
                j < i
    /\ \A j \in CallsOf(l, "free") : l.calls[j].wiped

\* C26: when a SecretBytes is destroyed its whole buffer is wiped before the
\* OS unlock call, and the unlock call is made exactly if locked() was true;
\* so it is when a panic unwinds its owner: the buffer new() or get_secret()
\* was working on (locked exactly if its lock call succeeded) is wiped, then
\* unlocked, before the panic leaves the call.
C26_WipeThenUnlock ==
    [][/\ last'.op \in {"drop", "drop_handle"}
             => DestroyedInOrder(last', heap[last'.slot].locked)
       /\ panicked' /\ ~panicked
             => DestroyedInOrder(last', \E i \in CallsOf(last', "lock") : last'.calls[i].ok)]_vars

C26_Witness ==
    /\ build.platform = "windows"
    /\ last.op = "create_protected_value"
    /\ panicked
    /\ CryptFailed(last, "encrypt")
    /\ \E i \in CallsOf(last, "lock") : last.calls[i].ok
    /\ \E i \in CallsOf(last, "unlock") : last.calls[i].wiped

\* C27: clone() attempts to lock the copy exactly when the original was
\* constructed with the lock requested, whether or not the original's own
\* lock call succeeded, and the copy's locked() is the outcome of its own
\* lock call.  The secret of a handle is constructed with the lock requested
\* (SecretBytes::new(size, true), SecretBytes::with_value(value, true)) and
\* get_secret() clones it: for a secret that is not empty the clone makes
\* one lock call, and the buffer returned is locked exactly if that call
\* succeeded.
C27_CloneLocksByIntent ==
    last.op = "get_secret" /\ made.buffer # <<>> =>
        /\ Cardinality(CallsOf(last, "lock")) = 1
        /\ ~panicked => \A i \in CallsOf(last, "lock") :
                            heap[last.slot].locked = last.calls[i].ok

\* The bytes a handle of the default strategy holds.
Stored == value(World, pv.slot)

\* C28 as stated: for every non-empty plaintext B and every seed drawn, the
\* bytes a DefaultProtectedValue holds after new(B) differ from B, and the
\* seed is not zero.
C28_StoredNeverPlain ==
    pv.kind = "default" /\ made.plain # <<>> =>
        /\ pv.seed # U64Zero
        /\ Stored # made.plain

\* C28, amended: the bytes a DefaultProtectedValue holds after new(B) are B
\* XORed byte by byte with the keystream of its seed, which is not zero; they
\* differ from B exactly when one of the first len(B) bytes of the keystream
\* is not zero.
C28_StoredIsMasked ==
    pv.kind = "default" =>
        LET ks == Keystream[pv.seed, build.overflow_checks]
            B == made.plain
        IN  /\ pv.seed # U64Zero
            /\ Len(Stored) = Len(B)
            /\ \A i \in 1..Len(B) : ~ks[i].overflow /\ Stored[i] = xor(B[i], ks[i].byte)
            /\ Stored # B <=> \E i \in 1..Len(B) : ks[i].byte # 0

C28_Witness ==
    /\ pv.kind = "default"
    /\ pv.seed = Seed1234
    /\ Len(made.plain) = 2
    /\ Stored = <<xor(made.plain[1], 91), xor(made.plain[2], 24)>>
    /\ Stored # made.plain
    /\ \E r \in OutSlots : heap[r].st = "live"

\* protected_size(n) of a length n below 2^24.
PaddedSize(n) == as_int(protected_size(usize(n), TRUE).val)

\* The calls `call` of the operation l are one call, on `size` bytes.
OneCall(l, call, size) ==
    /\ Cardinality(CallsOf(l, call)) = 1
    /\ \A i \in CallsOf(l, call) : l.calls[i].size = size

\* C29: for every plaintext of length n a Win32ProtectedValue holds a buffer
\* of buffer_len() = protected_size(n) and len() = n, the OS encryption and
\* decryption are called on the whole padded buffer, and get_secret() returns
\* a buffer of buffer_len() = protected_size(n) and len() = n whose first n
\* bytes are the plaintext.
C29_Win32FullBuffer ==
    /\ pv.kind = "win32" =>
          /\ buffer_len(World, pv.slot) = PaddedSize(Len(made.plain))
          /\ len(World, pv.slot) = Len(made.plain)
    /\ pv.kind = "win32" /\ last.op = "create_protected_value" =>
          OneCall(last, "encrypt", PaddedSize(Len(made.plain)))
    /\ pv.kind = "win32" /\ last.op = "get_secret" =>
          /\ OneCall(last, "decrypt", PaddedSize(Len(made.plain)))
          /\ ~panicked =>
                /\ buffer_len(World, last.slot) = PaddedSize(Len(made.plain))
                /\ len(World, last.slot) = Len(made.plain)
                /\ value(World, last.slot) = made.plain
    /\ calc.op = "new_sizes" /\ ~calc.failed =>
          /\ calc.ret = protected_size(calc.n, TRUE).val
          /\ calc.size = calc.ret

\* The get of the step that leads to the primed state found its key.
GetFound == last'.op = "get" /\ last'.ret
\* The insert of the step removed an entry.
Evicted == last'.op = "insert" /\ ~last'.ret /\ last'.n = cache.max_size

\* C30 as stated, for the eviction that directly follows the get: after a
\* successful get(k) the eviction does not remove k while another entry
\* exists, the entry just inserted being one.
C30_NextEvictionSparesKey ==
    [][last.op = "get" /\ last.ret /\ Evicted /\ SimpleCacheEngine_len(cache') >= 1
          => cache'.map[last.key].present]_vars

\* C30, amended: a successful get(k) returns the value of k and gives k a
\* counter greater than its previous one and than that of every other entry,
\* and leaves the other entries as they were; an insert that directly follows
\* the get does not evict k while another entry that was in the cache at the
\* get exists; a get of an absent key returns None and changes no entry.
C30_GetMakesNewest ==
    [][/\ GetFound =>
             LET k == last'.key
             IN  /\ cache.map[k].present /\ cache'.map[k].present
                 /\ last'.val = cache.map[k].value
                 /\ cache'.map[k].value = cache.map[k].value
                 /\ lt_u64(cache.map[k].counter, cache'.map[k].counter)
                 /\ \A j \in Keys \ {k} :
                       /\ cache'.map[j] = cache.map[j]
                       /\ cache.map[j].present =>
                             lt_u64(cache.map[j].counter, cache'.map[k].counter)
       /\ last.op = "get" /\ last.ret /\ Evicted /\ SimpleCacheEngine_len(cache) >= 2
             => cache'.map[last.key].present
       /\ last'.op = "get" /\ ~last'.ret =>
             /\ ~cache.map[last'.key].present
             /\ last'.val = None.value
             /\ cache'.map = cache.map]_vars

\* Keys 1 and 2 were inserted in this order, then 1 was read: 1 holds the
\* newest counter and 2 is the entry the next insert of a new key removes.
C30_Witness ==
    /\ last.op = "get" /\ last.ret /\ last.key = 1
    /\ cache.max_size = 2
    /\ cache.touched = <<2, 1>>
    /\ cache.map[1].counter = usize(2)
    /\ cache.map[2].counter = usize(1)

=============================================================================
